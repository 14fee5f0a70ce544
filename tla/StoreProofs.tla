---------------------------- MODULE StoreProofs -----------------------------
(***************************************************************************)
(* Machine-checked proofs about what the server stores: OAuthGrants, for   *)
(* any sets of clients, codes and requests and any lifetimes, and          *)
(* DynamoStore, for any number of functions, users, workspaces, grants,    *)
(* calls and crashes.                                                      *)
(***************************************************************************)
EXTENDS OAuthGrants, DynamoStore, FiniteSetTheorems, TLAPS

-----------------------------------------------------------------------------
(***************************************************************************)
(* The OAuth grants.                                                       *)
(***************************************************************************)

\* An empty database satisfies the invariant.
LEMMA InitInvariant == Init => IInv
<1> SUFFICES ASSUME Init PROVE IInv
  OBVIOUS
<1> USE NoneAssumption DEF Init
<1>1. TypeOK
  BY DEF TypeOK
<1>2. CodeInv /\ SecretInv /\ RotateInv
  BY DEF CodeInv, SecretInv, RotateInv
<1>3. RedeemedOnce /\ FamiliesDisjoint
  BY DEF RedeemedOnce, FamiliesDisjoint
<1>4. ReusedSecretIsDead /\ InUseClientsStay
  BY DEF ReusedSecretIsDead, InUseClientsStay, LiveGrant, LiveCode
<1> QED BY <1>1, <1>2, <1>3, <1>4 DEF IInv

\* The row of a live grant, code or client has its type, and so is not None.
LEMMA Rows ==
    ASSUME TypeOK
    PROVE  /\ \A g \in Requests : grants[g] # None => grants[g] \in Grant
           /\ \A k \in Codes : codes[k] # None => codes[k] \in Code
           /\ \A c \in Clients : clients[c] # None => clients[c] \in Client
           /\ \A g \in Grant : g # None
           /\ \A k \in Code : k # None
           /\ \A c \in Client : c # None
BY NoneAssumption DEF TypeOK

\* Deleting expired codes leaves the rows, and none comes back to life.
LEMMA UnexpiredRow ==
    ASSUME TypeOK, NEW k \in Codes, codes[k] # None, NEW t
    PROVE  /\ Unexpired(k, t) \in Code
           /\ Unexpired(k, t).client = codes[k].client
           /\ Unexpired(k, t).live => codes[k].live
<1>1. codes[k] \in Code
  BY Rows
<1>2. codes[k].live \in BOOLEAN
  BY <1>1 DEF Code
<1>3. (codes[k].live /\ codes[k].expires > t) \in BOOLEAN
  OBVIOUS
<1> QED BY <1>1, <1>2, <1>3 DEF Code, Unexpired

\* The part of the invariant about secrets holds as long as the grants and
\* the requests do not change.
LEMMA GrantsUntouched ==
    ASSUME IInv, TypeOK', UNCHANGED <<grants, reqVars>>, now' >= now
    PROVE  SecretInv' /\ RotateInv' /\ RedeemedOnce' /\ FamiliesDisjoint' /\ ReusedSecretIsDead'
<1> USE DEF IInv, reqVars
<1>1. SecretInv'
  <2>1. ASSUME NEW g \in Requests, grants[g] # None PROVE LastUse(grants[g]) <= now'
    <3>1. grants[g] \in Grant
      BY <2>1, Rows
    <3>2. LastUse(grants[g]) \in Nat
      BY <3>1 DEF Grant, LastUse
    <3> QED BY <2>1, <3>2 DEF SecretInv, TypeOK
  <2> QED BY <2>1 DEF SecretInv, LastUse
<1>2. RotateInv'
  BY DEF RotateInv, TypeOK, LiveGrant, Active, LastUse
<1>3. RedeemedOnce' /\ FamiliesDisjoint'
  BY DEF RedeemedOnce, FamiliesDisjoint
<1>4. ReusedSecretIsDead'
  BY DEF ReusedSecretIsDead, LiveGrant
<1> QED BY <1>1, <1>2, <1>3, <1>4

\* The clock.
LEMMA TickKeepsInvariant == ASSUME IInv, Tick PROVE IInv'
<1> USE DEF Tick
<1>1. TypeOK'
  BY DEF IInv, TypeOK, reqVars
<1>2. now' >= now
  BY DEF IInv, TypeOK
<1>3. CodeInv' /\ InUseClientsStay'
  BY DEF IInv, CodeInv, InUseClientsStay, LiveGrant, LiveCode, LiveClient, reqVars
<1> QED BY <1>1, <1>2, <1>3, GrantsUntouched DEF IInv

\* Registration.
LEMMA RegisterKeepsInvariant == ASSUME IInv, NEW c \in Clients, Register(c) PROVE IInv'
<1> USE DEF Register
<1>1. clients' \in [Clients -> Client \cup {None}]
  BY DEF IInv, TypeOK, Client
<1>2. TypeOK'
  BY <1>1 DEF IInv, TypeOK, reqVars
<1>3. CodeInv'
  BY DEF IInv, CodeInv, reqVars
<1>4. \A d \in Clients : LiveClient(d) => LiveClient(d)'
  BY <1>1 DEF IInv, TypeOK, LiveClient
<1>5. InUseClientsStay'
  <2>1. \A g \in Requests : LiveGrant(g) => grants[g].client \in Clients
    BY Rows DEF IInv, LiveGrant, Grant
  <2>2. \A k \in Codes : LiveCode(k) => codes[k].client \in Clients
    BY Rows DEF IInv, LiveCode, Code
  <2> QED BY <1>4, <2>1, <2>2 DEF IInv, InUseClientsStay, LiveGrant, LiveCode
<1>6. now' >= now
  BY DEF IInv, TypeOK
<1> QED BY <1>2, <1>3, <1>5, <1>6, GrantsUntouched DEF IInv

\* Consent: the expired codes go, the new one is of a live client.
LEMMA ApproveKeepsInvariant ==
    ASSUME IInv, NEW c \in Clients, NEW k \in Codes, Approve(k, c) PROVE IInv'
<1> USE DEF Approve
<1>1. /\ codes'[k] = [client |-> c, expires |-> now + CodeLife, live |-> TRUE]
      /\ codes'[k] \in Code
  BY TimesAssumption DEF IInv, TypeOK, Code
<1>2. \A j \in Codes : j # k => codes'[j] = IF codes[j] = None THEN None ELSE Unexpired(j, now)
  OBVIOUS
<1>3. codes' \in [Codes -> Code \cup {None}]
  BY <1>1, <1>2, UnexpiredRow DEF IInv
<1>4. TypeOK'
  BY <1>3 DEF IInv, TypeOK, reqVars
<1>5. \A j \in Codes : codes[j] # None =>
          codes'[j] # None /\ codes'[j].client = codes[j].client /\ (codes'[j].live => codes[j].live)
  BY <1>2, UnexpiredRow, Rows DEF IInv
<1>6. CodeInv'
  BY <1>5 DEF IInv, CodeInv, reqVars
<1>7. InUseClientsStay'
  <2>1. \A j \in Codes : j # k /\ LiveCode(j)' => LiveCode(j) /\ codes'[j].client = codes[j].client
    BY <1>2, <1>5 DEF LiveCode
  <2> QED BY <1>1, <2>1 DEF IInv, InUseClientsStay, LiveGrant, LiveClient
<1>8. now' >= now
  BY DEF IInv, TypeOK
<1> QED BY <1>4, <1>6, <1>7, <1>8, GrantsUntouched DEF IInv

\* The first statement of the sweep: a client that is not in use.
LEMMA SweepClientsKeepsInvariant == ASSUME IInv, SweepClients PROVE IInv'
<1> USE DEF SweepClients
<1>1. clients' \in [Clients -> Client \cup {None}]
  <2>1. CASE UNCHANGED clients
    BY <2>1 DEF IInv, TypeOK
  <2>2. CASE clients' = [c \in Clients |->
             IF LiveClient(c) /\ clients[c].at + UnusedTTL <= now /\ Unused(c)
             THEN [clients[c] EXCEPT !.live = FALSE] ELSE clients[c]]
    <3>1. \A c \in Clients : LiveClient(c) => [clients[c] EXCEPT !.live = FALSE] \in Client
      BY Rows DEF IInv, LiveClient, Client
    <3> QED BY <2>2, <3>1 DEF IInv, TypeOK
  <2> QED BY <2>1, <2>2
<1>2. TypeOK'
  BY <1>1 DEF IInv, TypeOK, reqVars
<1>3. CodeInv'
  BY DEF IInv, CodeInv, reqVars
<1>4. \A c \in Clients : LiveClient(c) => LiveClient(c)' \/ Unused(c)
  BY DEF LiveClient
<1>5. InUseClientsStay'
  <2>1. \A g \in Requests : LiveGrant(g) => grants[g].client \in Clients
    BY Rows DEF IInv, LiveGrant, Grant
  <2>2. \A k \in Codes : LiveCode(k) => codes[k].client \in Clients
    BY Rows DEF IInv, LiveCode, Code
  <2> QED BY <1>4, <2>1, <2>2 DEF IInv, InUseClientsStay, LiveGrant, LiveCode, Unused
<1>6. now' >= now
  BY DEF IInv, TypeOK
<1> QED BY <1>2, <1>3, <1>5, <1>6, GrantsUntouched DEF IInv

\* The second: expired codes.
LEMMA SweepCodesKeepsInvariant == ASSUME IInv, SweepCodes PROVE IInv'
<1> USE DEF SweepCodes
<1>1. /\ codes' \in [Codes -> Code \cup {None}]
      /\ \A k \in Codes : codes[k] = None => codes'[k] = None
      /\ \A k \in Codes : codes[k] # None =>
            codes'[k] # None /\ codes'[k].client = codes[k].client /\ (codes'[k].live => codes[k].live)
  <2>1. CASE UNCHANGED codes
    BY <2>1 DEF IInv, TypeOK
  <2>2. CASE codes' = [k \in Codes |-> IF codes[k] = None THEN None ELSE Unexpired(k, sweeper)]
    BY <2>2, UnexpiredRow, Rows DEF IInv
  <2> QED BY <2>1, <2>2
<1>2. TypeOK'
  BY <1>1 DEF IInv, TypeOK, reqVars
<1>3. CodeInv'
  BY <1>1 DEF IInv, CodeInv, reqVars
<1>4. InUseClientsStay'
  BY <1>1 DEF IInv, InUseClientsStay, LiveGrant, LiveCode, LiveClient
<1>5. now' >= now
  BY DEF IInv, TypeOK
<1> QED BY <1>2, <1>3, <1>4, <1>5, GrantsUntouched DEF IInv

\* Redeeming a code: it was live, so nobody has redeemed it.
LEMMA ConsumeKeepsInvariant ==
    ASSUME IInv, NEW r \in Requests, NEW k \in Codes, Consume(r, k) PROVE IInv'
<1> USE NamesAssumption, NoneAssumption DEF Consume
<1>1. codes[k] \in Code /\ codes[k].live
  BY Rows DEF IInv, LiveCode
<1>2. /\ codes'[k] \in Code /\ codes'[k] # None /\ ~codes'[k].live
      /\ \A j \in Codes : j # k => codes'[j] = codes[j]
      /\ codes' \in [Codes -> Code \cup {None}]
  BY <1>1, Rows DEF IInv, TypeOK, Code
<1>3. /\ pc' \in [Requests -> {"start", "issue", "rotate", "reuse", "ok", "failed", "reused"}]
      /\ pc[r] = "start" /\ pc'[r] \in {"issue", "failed"}
      /\ \A q \in Requests : q # r => pc'[q] = pc[q]
      /\ from' \in [Requests -> Codes \cup Requests \cup {None}]
      /\ from[r] = None /\ from'[r] = k
      /\ \A q \in Requests : q # r => from'[q] = from[q]
  BY DEF IInv, TypeOK, Goto, CodeInv
<1>4. TypeOK'
  BY <1>2, <1>3 DEF IInv, TypeOK
<1>5. CodeInv'
  BY <1>2, <1>3 DEF IInv, CodeInv
<1>6. SecretInv'
  <2>1. \A g \in Requests : grants[g] # None => grants[g].cur \in Requests /\ grants[g].prev \in Requests \cup {None}
    BY Rows DEF IInv, Grant
  <2> QED BY <1>3, <2>1 DEF IInv, SecretInv, LastUse
<1>7. RotateInv'
  BY <1>3 DEF IInv, RotateInv, LiveGrant, Active, LastUse
<1>8. RedeemedOnce'
  BY <1>1, <1>3 DEF IInv, RedeemedOnce, CodeInv
<1>9. FamiliesDisjoint'
  <2>1. \A g \in Requests : grants[g] # None => grants[g].cur \in Requests /\ grants[g].cur # r
    BY <1>3, Rows DEF IInv, Grant, SecretInv
  <2> QED BY <1>3, <2>1 DEF IInv, FamiliesDisjoint
<1>10. ReusedSecretIsDead'
  BY <1>3 DEF IInv, ReusedSecretIsDead, LiveGrant
<1>11. InUseClientsStay'
  BY <1>2 DEF IInv, InUseClientsStay, LiveGrant, LiveCode, LiveClient
<1> QED BY <1>4, <1>5, <1>6, <1>7, <1>8, <1>9, <1>10, <1>11 DEF IInv

\* A request that ends without an answer leaves nothing but itself behind.
LEMMA EndKeepsInvariant ==
    ASSUME IInv, NEW r \in Requests, pc[r] \in {"start", "issue", "rotate", "reuse"},
           Goto(r, "failed"),
           UNCHANGED <<now, clients, codes, grants, from, sec, tgt, at, sweeper>>
    PROVE  IInv'
<1> USE NoneAssumption
<1>1. /\ pc' \in [Requests -> {"start", "issue", "rotate", "reuse", "ok", "failed", "reused"}]
      /\ pc'[r] = "failed"
      /\ \A q \in Requests : q # r => pc'[q] = pc[q]
  BY DEF IInv, TypeOK, Goto
<1>2. TypeOK'
  BY <1>1 DEF IInv, TypeOK
<1>3. CodeInv'
  BY <1>1 DEF IInv, CodeInv
<1>4. SecretInv'
  <2>1. \A g \in Requests : grants[g] # None => grants[g].cur \in Requests /\ grants[g].prev \in Requests \cup {None}
    BY Rows DEF IInv, Grant
  <2> QED BY <1>1, <2>1 DEF IInv, SecretInv, LastUse
<1>5. RotateInv'
  BY <1>1 DEF IInv, RotateInv, LiveGrant, Active, LastUse
<1>6. FamiliesDisjoint' /\ RedeemedOnce'
  BY DEF IInv, FamiliesDisjoint, RedeemedOnce
<1>7. ReusedSecretIsDead'
  BY <1>1 DEF IInv, ReusedSecretIsDead, LiveGrant
<1>8. InUseClientsStay'
  BY DEF IInv, InUseClientsStay, LiveGrant, LiveCode, LiveClient
<1> QED BY <1>2, <1>3, <1>4, <1>5, <1>6, <1>7, <1>8 DEF IInv

\* A new grant: its secret is the request itself, which nothing refers to.
LEMMA IssueKeepsInvariant ==
    ASSUME IInv, NEW r \in Requests, Issue(r) PROVE IInv'
<1> DEFINE c == codes[from[r]].client
<1> USE NamesAssumption, NoneAssumption DEF Issue
<1>1. /\ pc' \in [Requests -> {"start", "issue", "rotate", "reuse", "ok", "failed", "reused"}]
      /\ pc[r] = "issue" /\ pc'[r] \in {"ok", "failed"}
      /\ \A q \in Requests : q # r => pc'[q] = pc[q]
      /\ from[r] \in Codes /\ grants[r] = None
  BY DEF IInv, TypeOK, Goto, CodeInv
<1>2. c \in Clients
  BY <1>1, Rows DEF IInv, CodeInv, Code
<1>3. \A g \in Requests : grants[g] # None =>
          /\ grants[g] \in Grant
          /\ grants[g].cur \in Requests /\ grants[g].cur # r
          /\ grants[g].prev \in Requests \cup {None} /\ grants[g].prev # r
  <2>1. \A g \in Requests : grants[g] # None =>
          grants[g] \in Grant /\ grants[g].cur \in Requests /\ grants[g].prev \in Requests \cup {None}
    BY Rows DEF IInv, Grant
  <2> QED BY <1>1, <2>1 DEF IInv, SecretInv
<1>4. CASE LiveClient(c)
  <2>1. /\ grants'[r] = [client |-> c, cur |-> r, prev |-> None, created |-> now, used |-> None, live |-> TRUE]
        /\ \A g \in Requests : g # r => grants'[g] = grants[g]
    BY <1>4 DEF IInv, TypeOK
  <2>2. grants'[r] \in Grant /\ grants'[r] # None
    <3>1. now \in Nat
      BY DEF IInv, TypeOK
    <3>2. grants'[r] \in Grant
      BY <1>2, <2>1, <3>1 DEF Grant
    <3> QED BY <3>2
  <2>3. grants' \in [Requests -> Grant \cup {None}]
    BY <1>4, <2>1, <2>2 DEF IInv, TypeOK
  <2>4. TypeOK'
    BY <1>1, <2>3 DEF IInv, TypeOK
  <2>5. CodeInv'
    BY <1>1, <2>1 DEF IInv, CodeInv
  <2>6. SecretInv'
    <3>1. LastUse(grants'[r]) = now
      BY <2>1 DEF LastUse
    <3>2. now \in Nat
      BY DEF IInv, TypeOK
    <3>3. ASSUME NEW g \in Requests, grants'[g] # None
          PROVE /\ pc'[grants'[g].cur] \in {"ok", "failed"}
                /\ grants'[g].prev # None => pc'[grants'[g].prev] = "ok"
                /\ grants'[g].created <= LastUse(grants'[g]) /\ LastUse(grants'[g]) <= now
      <4>1. CASE g = r
        BY <4>1, <1>1, <2>1, <3>1, <3>2
      <4>2. CASE g # r
        BY <4>2, <1>1, <1>3, <2>1, <3>3 DEF IInv, SecretInv
      <4> QED BY <4>1, <4>2
    <3>4. ASSUME NEW q \in Requests, from[q] \in Requests
          PROVE  /\ pc'[from[q]] = "ok" /\ pc'[q] \in {"ok", "failed"}
                 /\ \A g \in Requests : grants'[g] # None => grants'[g].cur # from[q]
      BY <1>1, <2>1, <3>4 DEF IInv, SecretInv
    <3> QED BY <3>3, <3>4 DEF SecretInv, LastUse
  <2>7. RotateInv'
    BY <1>1, <2>1 DEF IInv, RotateInv, LiveGrant, Active, LastUse
  <2>8. FamiliesDisjoint'
    BY <1>1, <1>3, <2>1 DEF IInv, FamiliesDisjoint
  <2>9. RedeemedOnce'
    BY DEF IInv, RedeemedOnce
  <2>10. ReusedSecretIsDead'
    BY <1>1, <2>1 DEF IInv, ReusedSecretIsDead, RotateInv, LiveGrant
  <2>11. InUseClientsStay'
    BY <1>4, <2>1 DEF IInv, InUseClientsStay, LiveGrant, LiveCode, LiveClient
  <2> QED BY <2>4, <2>5, <2>6, <2>7, <2>8, <2>9, <2>10, <2>11 DEF IInv
<1>5. CASE ~LiveClient(c)
  BY <1>1, <1>5, EndKeepsInvariant
<1> QED BY <1>4, <1>5

\* Looking up a current secret: the row is remembered for the rotation.
LEMMA RefreshFoundKeepsInvariant ==
    ASSUME IInv, NEW r \in Requests, NEW s \in Requests, NEW g \in Requests, RefreshFound(r, s, g)
    PROVE  IInv'
<1> USE NoneAssumption DEF RefreshFound
<1>1. CASE ~Active(grants[g], now)
  BY <1>1, EndKeepsInvariant
<1>2. CASE Active(grants[g], now)
  <2>1. /\ pc' \in [Requests -> {"start", "issue", "rotate", "reuse", "ok", "failed", "reused"}]
        /\ pc[r] = "start" /\ pc'[r] = "rotate" /\ from[r] = None
        /\ \A q \in Requests : q # r => pc'[q] = pc[q]
        /\ sec' \in [Requests -> Requests \cup {None}] /\ sec'[r] = s
        /\ \A q \in Requests : q # r => sec'[q] = sec[q]
        /\ tgt' \in [Requests -> Requests \cup {None}] /\ tgt'[r] = g
        /\ \A q \in Requests : q # r => tgt'[q] = tgt[q]
        /\ at' \in [Requests -> Nat] /\ at'[r] = now
        /\ \A q \in Requests : q # r => at'[q] = at[q]
    BY <1>2 DEF IInv, TypeOK, Goto, CodeInv
  <2>2. TypeOK'
    BY <2>1 DEF IInv, TypeOK
  <2>3. CodeInv'
    BY <2>1 DEF IInv, CodeInv
  <2>4. SecretInv'
    <3>1. \A h \in Requests : grants[h] # None => grants[h].cur \in Requests /\ grants[h].prev \in Requests \cup {None}
      BY Rows DEF IInv, Grant
    <3> QED BY <2>1, <3>1 DEF IInv, SecretInv, LastUse
  <2>5. RotateInv'
    <3>1. LastUse(grants[g]) <= now /\ grants[g] # None /\ grants[g].cur = s /\ now \in Nat
      BY DEF IInv, SecretInv, LiveGrant, TypeOK
    <3> QED BY <1>2, <2>1, <3>1 DEF IInv, RotateInv, LiveGrant, Active, LastUse
  <2>6. FamiliesDisjoint' /\ RedeemedOnce'
    BY DEF IInv, FamiliesDisjoint, RedeemedOnce
  <2>7. ReusedSecretIsDead'
    BY <2>1 DEF IInv, ReusedSecretIsDead, LiveGrant
  <2>8. InUseClientsStay'
    BY DEF IInv, InUseClientsStay, LiveGrant, LiveCode, LiveClient
  <2> QED BY <2>2, <2>3, <2>4, <2>5, <2>6, <2>7, <2>8 DEF IInv
<1> QED BY <1>1, <1>2

\* Missing a current secret: from now on no live grant has it as its current
\* one, as secrets are not minted twice.
LEMMA RefreshUnknownKeepsInvariant ==
    ASSUME IInv, NEW r \in Requests, NEW s \in Requests, RefreshUnknown(r, s)
    PROVE  IInv'
<1> USE NoneAssumption DEF RefreshUnknown
<1>1. /\ pc' \in [Requests -> {"start", "issue", "rotate", "reuse", "ok", "failed", "reused"}]
      /\ pc[r] = "start" /\ pc'[r] = "reuse" /\ from[r] = None
      /\ \A q \in Requests : q # r => pc'[q] = pc[q]
      /\ sec' \in [Requests -> Requests \cup {None}] /\ sec'[r] = s
      /\ \A q \in Requests : q # r => sec'[q] = sec[q]
      /\ tgt' \in [Requests -> Requests \cup {None}]
      /\ \A q \in Requests : q # r => tgt'[q] = tgt[q]
  BY DEF IInv, TypeOK, Goto, CodeInv
<1>2. TypeOK'
  BY <1>1 DEF IInv, TypeOK
<1>3. CodeInv'
  BY <1>1 DEF IInv, CodeInv
<1>4. SecretInv'
  <2>1. \A h \in Requests : grants[h] # None => grants[h].cur \in Requests /\ grants[h].prev \in Requests \cup {None}
    BY Rows DEF IInv, Grant
  <2> QED BY <1>1, <2>1 DEF IInv, SecretInv, LastUse
<1>5. RotateInv'
  BY <1>1 DEF IInv, RotateInv, LiveGrant, Active, LastUse
<1>6. FamiliesDisjoint' /\ RedeemedOnce'
  BY DEF IInv, FamiliesDisjoint, RedeemedOnce
<1>7. ReusedSecretIsDead'
  BY <1>1 DEF IInv, ReusedSecretIsDead, LiveGrant
<1>8. InUseClientsStay'
  BY DEF IInv, InUseClientsStay, LiveGrant, LiveCode, LiveClient
<1> QED BY <1>2, <1>3, <1>4, <1>5, <1>6, <1>7, <1>8 DEF IInv

\* Deleting grants, while each request keeps what it has read of them.
LEMMA DeleteRow ==
    ASSUME IInv, grants' \in [Requests -> Grant \cup {None}],
           \A g \in Requests : grants[g] = None => grants'[g] = None,
           \A g \in Requests : grants[g] # None =>
              /\ grants'[g] # None /\ (grants'[g].live => grants[g].live)
              /\ grants'[g].client = grants[g].client /\ grants'[g].cur = grants[g].cur
              /\ grants'[g].prev = grants[g].prev /\ grants'[g].created = grants[g].created
              /\ grants'[g].used = grants[g].used,
           UNCHANGED <<now, clients, codes, from, sec, tgt, at, sweeper>>,
           NEW r \in Requests,
           \/ UNCHANGED pc
           \/ /\ pc[r] = "reuse" /\ Goto(r, "reused")
              /\ \A g \in Requests : LiveGrant(g)' => grants[g].prev # sec[r]
    PROVE  IInv'
<1> USE NoneAssumption
<1>1. /\ pc' \in [Requests -> {"start", "issue", "rotate", "reuse", "ok", "failed", "reused"}]
      /\ \A q \in Requests : q # r => pc'[q] = pc[q]
      /\ pc'[r] # pc[r] => pc[r] = "reuse" /\ pc'[r] = "reused"
  BY DEF IInv, TypeOK, Goto
<1>2. TypeOK'
  BY <1>1 DEF IInv, TypeOK
<1>3. CodeInv'
  BY <1>1 DEF IInv, CodeInv
<1>4. \A g \in Requests : grants[g] # None =>
          LastUse(grants'[g]) = LastUse(grants[g]) /\ \A t : Active(grants'[g], t) = Active(grants[g], t)
  BY DEF LastUse, Active
<1>5. SecretInv'
  <2>1. \A h \in Requests : grants[h] # None => grants[h].cur \in Requests /\ grants[h].prev \in Requests \cup {None}
    BY Rows DEF IInv, Grant
  <2>2. ASSUME NEW g \in Requests, grants'[g] # None
        PROVE /\ pc'[grants'[g].cur] \in {"ok", "failed"}
              /\ grants'[g].prev # None => pc'[grants'[g].prev] = "ok"
              /\ grants'[g].created <= LastUse(grants'[g]) /\ LastUse(grants'[g]) <= now
    BY <1>1, <1>4, <2>1, <2>2 DEF IInv, SecretInv
  <2>3. ASSUME NEW q \in Requests, from[q] \in Requests
        PROVE  /\ pc'[from[q]] = "ok" /\ pc'[q] \in {"ok", "failed"}
               /\ \A g \in Requests : grants'[g] # None => grants'[g].cur # from[q]
    BY <1>1, <2>3 DEF IInv, SecretInv
  <2> QED BY <2>2, <2>3 DEF SecretInv, LastUse
<1>6. \A g \in Requests : LiveGrant(g)' => LiveGrant(g)
  BY DEF LiveGrant
<1>7. RotateInv'
  <2>1. ASSUME NEW q \in Requests, pc'[q] = "rotate"
        PROVE /\ from[q] = None
              /\ sec[q] \in Requests /\ pc'[sec[q]] = "ok"
              /\ tgt[q] \in Requests /\ grants'[tgt[q]] # None
              /\ at[q] <= now
              /\ grants'[tgt[q]].cur = sec[q] =>
                    Active(grants'[tgt[q]], at[q]) /\ LastUse(grants'[tgt[q]]) <= at[q]
    BY <1>1, <1>4, <2>1 DEF IInv, RotateInv
  <2>2. ASSUME NEW q \in Requests, pc'[q] \in {"reuse", "reused"}
        PROVE /\ from[q] = None
              /\ sec[q] \in Requests /\ pc'[sec[q]] = "ok"
              /\ \A g \in Requests : LiveGrant(g)' => grants'[g].cur # sec[q]
    BY <1>1, <1>6, <2>2 DEF IInv, RotateInv, LiveGrant
  <2> QED BY <2>1, <2>2 DEF RotateInv, Active, LastUse
<1>8. FamiliesDisjoint' /\ RedeemedOnce'
  BY DEF IInv, FamiliesDisjoint, RedeemedOnce
<1>9. ReusedSecretIsDead'
  BY <1>1, <1>6 DEF IInv, ReusedSecretIsDead, RotateInv, LiveGrant
<1>10. InUseClientsStay'
  BY <1>6 DEF IInv, InUseClientsStay, LiveGrant, LiveCode, LiveClient
<1> QED BY <1>2, <1>3, <1>5, <1>7, <1>8, <1>9, <1>10 DEF IInv

\* The answer to a reused secret: whatever was rotated away from it is gone.
LEMMA RevokeKeepsInvariant == ASSUME IInv, NEW r \in Requests, Revoke(r) PROVE IInv'
<1> USE DEF Revoke
<1>1. \A g \in Requests : LiveGrant(g) =>
          /\ [grants[g] EXCEPT !.live = FALSE] \in Grant
          /\ grants[g] \in Grant
  BY Rows DEF IInv, LiveGrant, Grant
<1>2. grants' \in [Requests -> Grant \cup {None}]
  BY <1>1 DEF IInv, TypeOK
<1>3. \A g \in Requests : grants[g] = None => grants'[g] = None
  BY DEF LiveGrant
<1>4. ASSUME NEW g \in Requests, grants[g] # None
      PROVE  /\ grants'[g] # None /\ (grants'[g].live => grants[g].live)
             /\ grants'[g].client = grants[g].client /\ grants'[g].cur = grants[g].cur
             /\ grants'[g].prev = grants[g].prev /\ grants'[g].created = grants[g].created
             /\ grants'[g].used = grants[g].used
  BY <1>1, <1>4, Rows DEF IInv, Grant
<1>5. \A g \in Requests : LiveGrant(g)' => grants[g].prev # sec[r]
  BY <1>1 DEF LiveGrant, Grant
<1> QED BY <1>2, <1>3, <1>4, <1>5, DeleteRow

\* A device is signed out.
LEMMA RevokeDeviceKeepsInvariant == ASSUME IInv, NEW d \in Requests, RevokeDevice(d) PROVE IInv'
<1> USE DEF RevokeDevice
<1>1. grants[d] # None /\ grants[d] \in Grant /\ [grants[d] EXCEPT !.live = FALSE] \in Grant
  BY Rows DEF IInv, LiveGrant, Grant
<1>2. grants' \in [Requests -> Grant \cup {None}]
  BY <1>1 DEF IInv, TypeOK
<1>3. \A g \in Requests : grants[g] = None => grants'[g] = None
  BY <1>1 DEF IInv, TypeOK
<1>4. ASSUME NEW g \in Requests, grants[g] # None
      PROVE  /\ grants'[g] # None /\ (grants'[g].live => grants[g].live)
             /\ grants'[g].client = grants[g].client /\ grants'[g].cur = grants[g].cur
             /\ grants'[g].prev = grants[g].prev /\ grants'[g].created = grants[g].created
             /\ grants'[g].used = grants[g].used
  BY <1>1, <1>4, Rows DEF IInv, TypeOK, Grant
<1> QED BY <1>2, <1>3, <1>4, DeleteRow DEF reqVars

\* What a successful rotation writes, and what its request knew of the row.
LEMMA RotateWrites ==
    ASSUME IInv, NEW r \in Requests, Rotate(r), LiveGrant(tgt[r]), grants[tgt[r]].cur = sec[r]
    PROVE  LET g == tgt[r] IN
           /\ g \in Requests /\ grants[g] \in Grant /\ grants[g].live
           /\ grants'[g] = [client |-> grants[g].client, cur |-> r, prev |-> sec[r],
                            created |-> grants[g].created, used |-> at[r], live |-> grants[g].live]
           /\ grants'[g] \in Grant
           /\ \A h \in Requests : h # g => grants'[h] = grants[h]
           /\ grants' \in [Requests -> Grant \cup {None}]
           /\ at[r] \in Nat /\ at[r] <= now /\ LastUse(grants[g]) <= at[r] /\ Active(grants[g], at[r])
           /\ sec[r] \in Requests
<1> DEFINE g == tgt[r]
<1>1. /\ g \in Requests /\ grants[g] # None /\ sec[r] \in Requests /\ at[r] <= now
      /\ LastUse(grants[g]) <= at[r] /\ Active(grants[g], at[r])
  BY DEF IInv, RotateInv, Rotate
<1>2. grants[g] \in Grant /\ at[r] \in Nat
  BY <1>1, Rows DEF IInv, TypeOK
<1>3. grants[g].live
  BY DEF LiveGrant
<1>4. grants' = [grants EXCEPT ![g].cur = r, ![g].prev = sec[r], ![g].used = at[r]]
  BY DEF Rotate
<1>5. grants'[g] = [client |-> grants[g].client, cur |-> r, prev |-> sec[r],
                    created |-> grants[g].created, used |-> at[r], live |-> grants[g].live]
  BY <1>1, <1>2, <1>4 DEF IInv, TypeOK, Grant
<1>6. grants'[g] \in Grant
  BY <1>1, <1>2, <1>5 DEF Grant
<1>7. \A h \in Requests : h # g => grants'[h] = grants[h]
  BY <1>4 DEF IInv, TypeOK
<1>8. grants' \in [Requests -> Grant \cup {None}]
  BY <1>4, <1>6, <1>7 DEF IInv, TypeOK
<1> QED BY <1>1, <1>2, <1>3, <1>5, <1>6, <1>7, <1>8

\* The compare-and-swap: the secret traded in was current, so nobody has
\* traded it before, and the new one is nowhere yet.
LEMMA RotateKeepsInvariant == ASSUME IInv, NEW r \in Requests, Rotate(r) PROVE IInv'
<1> DEFINE g == tgt[r]
<1> USE NamesAssumption, NoneAssumption
<1>1. CASE ~(LiveGrant(g) /\ grants[g].cur = sec[r])
  BY <1>1, EndKeepsInvariant DEF Rotate
<1>2. CASE LiveGrant(g) /\ grants[g].cur = sec[r]
  <2>1. /\ g \in Requests /\ grants[g] \in Grant /\ grants[g].live /\ grants[g] # None
        /\ grants'[g].client = grants[g].client /\ grants'[g].cur = r /\ grants'[g].prev = sec[r]
        /\ grants'[g].created = grants[g].created /\ grants'[g].used = at[r]
        /\ grants'[g] # None
        /\ \A h \in Requests : h # g => grants'[h] = grants[h]
        /\ grants' \in [Requests -> Grant \cup {None}]
        /\ at[r] \in Nat /\ at[r] <= now /\ LastUse(grants[g]) <= at[r]
        /\ sec[r] \in Requests
    <3>1. /\ g \in Requests /\ grants[g] \in Grant /\ grants[g].live
          /\ grants'[g] = [client |-> grants[g].client, cur |-> r, prev |-> sec[r],
                           created |-> grants[g].created, used |-> at[r], live |-> grants[g].live]
          /\ grants'[g] \in Grant
          /\ \A h \in Requests : h # g => grants'[h] = grants[h]
          /\ grants' \in [Requests -> Grant \cup {None}]
          /\ at[r] \in Nat /\ at[r] <= now /\ LastUse(grants[g]) <= at[r]
          /\ sec[r] \in Requests
      BY <1>2, RotateWrites
    <3>2. grants[g] # None /\ grants'[g] # None
      BY <3>1, Rows DEF IInv
    <3>3. /\ grants'[g].client = grants[g].client /\ grants'[g].cur = r /\ grants'[g].prev = sec[r]
          /\ grants'[g].created = grants[g].created /\ grants'[g].used = at[r]
      BY <3>1
    <3> QED BY <3>1, <3>2, <3>3
  <2>2. /\ pc' \in [Requests -> {"start", "issue", "rotate", "reuse", "ok", "failed", "reused"}]
        /\ pc[r] = "rotate" /\ pc'[r] \in {"ok", "failed"}
        /\ \A q \in Requests : q # r => pc'[q] = pc[q]
        /\ from' \in [Requests -> Codes \cup Requests \cup {None}]
        /\ from[r] = None /\ from'[r] = sec[r] /\ pc[sec[r]] = "ok"
        /\ \A q \in Requests : q # r => from'[q] = from[q]
        /\ UNCHANGED <<now, clients, codes, sec, tgt, at, sweeper>>
    BY <1>2, <2>1 DEF IInv, TypeOK, Goto, Rotate, RotateInv
  <2>3. \A h \in Requests : grants[h] # None =>
          /\ grants[h].cur \in Requests /\ grants[h].cur # r
          /\ grants[h].prev \in Requests \cup {None} /\ grants[h].prev # r
    <3>1. \A h \in Requests : grants[h] # None =>
            grants[h].cur \in Requests /\ grants[h].prev \in Requests \cup {None}
      BY Rows DEF IInv, Grant
    <3> QED BY <2>2, <3>1 DEF IInv, SecretInv
  <2>4. TypeOK'
    BY <2>1, <2>2 DEF IInv, TypeOK
  <2>5. CodeInv'
    BY <2>1, <2>2 DEF IInv, CodeInv
  <2>6. SecretInv'
    <3>1. LastUse(grants'[g]) = at[r] /\ grants[g].created \in Nat /\ LastUse(grants[g]) \in Nat
      BY <2>1 DEF LastUse, Grant
    <3>2. ASSUME NEW h \in Requests, grants'[h] # None
          PROVE  /\ pc'[grants'[h].cur] \in {"ok", "failed"}
                 /\ grants'[h].prev # None => pc'[grants'[h].prev] = "ok"
                 /\ grants'[h].created <= LastUse(grants'[h]) /\ LastUse(grants'[h]) <= now
      <4>1. CASE h = g
        <5>1. grants[g].created <= LastUse(grants[g])
          BY <2>1 DEF IInv, SecretInv
        <5>2. pc'[r] \in {"ok", "failed"} /\ pc'[sec[r]] = "ok"
          BY <2>1, <2>2
        <5> QED BY <4>1, <2>1, <3>1, <5>1, <5>2
      <4>2. CASE h # g
        BY <4>2, <2>1, <2>2, <2>3, <3>2 DEF IInv, SecretInv
      <4> QED BY <4>1, <4>2
    <3>3. ASSUME NEW q \in Requests, from'[q] \in Requests
          PROVE  /\ pc'[from'[q]] = "ok" /\ pc'[q] \in {"ok", "failed"}
                 /\ \A h \in Requests : grants'[h] # None => grants'[h].cur # from'[q]
      <4>1. CASE q = r
        <5>1. \A h \in Requests : h # g /\ grants[h] # None => grants[h].cur # sec[r]
          BY <1>2, <2>1 DEF IInv, FamiliesDisjoint
        <5> QED BY <4>1, <2>1, <2>2, <5>1
      <4>2. CASE q # r
        BY <4>2, <2>1, <2>2, <3>3 DEF IInv, SecretInv
      <4> QED BY <4>1, <4>2
    <3> QED BY <2>2, <3>2, <3>3 DEF SecretInv, LastUse
  <2>7. RotateInv'
    <3>1. ASSUME NEW q \in Requests, pc'[q] = "rotate"
          PROVE /\ from'[q] = None
                /\ sec[q] \in Requests /\ pc'[sec[q]] = "ok"
                /\ tgt[q] \in Requests /\ grants'[tgt[q]] # None
                /\ at[q] <= now
                /\ grants'[tgt[q]].cur = sec[q] =>
                      Active(grants'[tgt[q]], at[q]) /\ LastUse(grants'[tgt[q]]) <= at[q]
      BY <2>1, <2>2, <3>1 DEF IInv, RotateInv
    <3>2. ASSUME NEW q \in Requests, pc'[q] \in {"reuse", "reused"}
          PROVE /\ from'[q] = None
                /\ sec[q] \in Requests /\ pc'[sec[q]] = "ok"
                /\ \A h \in Requests : LiveGrant(h)' => grants'[h].cur # sec[q]
      BY <2>1, <2>2, <3>2 DEF IInv, RotateInv, LiveGrant
    <3> QED BY <2>2, <3>1, <3>2 DEF RotateInv, Active, LastUse
  <2>8. RedeemedOnce'
    <3>1. \A q \in Requests : from[q] # sec[r]
      BY <1>2, <2>1 DEF IInv, SecretInv
    <3> QED BY <2>1, <2>2, <3>1 DEF IInv, RedeemedOnce
  <2>9. FamiliesDisjoint'
    <3>1. \A h \in Requests : h # g /\ grants[h] # None => sec[r] \notin {grants[h].cur, grants[h].prev}
      BY <1>2, <2>1 DEF IInv, FamiliesDisjoint
    <3>2. ASSUME NEW h \in Requests, NEW i \in Requests, grants'[h] # None, grants'[i] # None, h # i
          PROVE  /\ grants'[h].cur \notin {grants'[i].cur, grants'[i].prev}
                 /\ grants'[h].prev # None => grants'[h].prev # grants'[i].prev
      <4>1. CASE h = g
        BY <4>1, <3>1, <3>2, <2>1, <2>3
      <4>2. CASE i = g
        BY <4>2, <3>1, <3>2, <2>1, <2>3
      <4>3. CASE h # g /\ i # g
        BY <4>3, <3>2, <2>1 DEF IInv, FamiliesDisjoint
      <4> QED BY <4>1, <4>2, <4>3
    <3>3. ASSUME NEW h \in Requests, grants'[h] # None
          PROVE  IF grants'[h].prev = None THEN grants'[h].cur = h
                 ELSE from'[grants'[h].cur] = grants'[h].prev
      <4>1. CASE h = g
        BY <4>1, <2>1, <2>2
      <4>2. CASE h # g
        BY <4>2, <3>3, <2>1, <2>2, <2>3 DEF IInv, FamiliesDisjoint
      <4> QED BY <4>1, <4>2
    <3> QED BY <3>2, <3>3 DEF FamiliesDisjoint
  <2>10. ReusedSecretIsDead'
    <3>1. ASSUME NEW q \in Requests, NEW h \in Requests, pc'[q] = "reused", LiveGrant(h)'
          PROVE  sec[q] \notin {grants'[h].cur, grants'[h].prev}
      <4>1. pc[q] = "reused" /\ pc[sec[q]] = "ok" /\ sec[q] # r
        BY <2>2, <3>1 DEF IInv, RotateInv
      <4>2. CASE h = g
        BY <1>2, <2>1, <4>1, <4>2 DEF IInv, ReusedSecretIsDead
      <4>3. CASE h # g
        BY <2>1, <3>1, <4>1, <4>3 DEF IInv, ReusedSecretIsDead, LiveGrant
      <4> QED BY <4>2, <4>3
    <3> QED BY <2>2, <3>1 DEF ReusedSecretIsDead
  <2>11. InUseClientsStay'
    BY <1>2, <2>1, <2>2 DEF IInv, InUseClientsStay, LiveGrant, LiveCode, LiveClient
  <2> QED BY <2>4, <2>5, <2>6, <2>7, <2>8, <2>9, <2>10, <2>11 DEF IInv
<1> QED BY <1>1, <1>2

\* Every step keeps the invariant.
LEMMA NextKeepsInvariant == IInv /\ [Next]_vars => IInv'
<1> SUFFICES ASSUME IInv, [Next]_vars PROVE IInv'
  OBVIOUS
<1>1. ASSUME NEW r \in Requests, RequestStep(r) PROVE IInv'
  <2>1. CASE Fail(r)
    BY <2>1, EndKeepsInvariant DEF Fail
  <2> QED BY <1>1, <2>1, ConsumeKeepsInvariant, RefreshFoundKeepsInvariant, RefreshUnknownKeepsInvariant,
             IssueKeepsInvariant, RevokeKeepsInvariant, RotateKeepsInvariant DEF RequestStep
<1>2. CASE UNCHANGED vars
  <2>1. TypeOK' /\ now' >= now
    BY <1>2 DEF IInv, TypeOK, vars
  <2>2. CodeInv' /\ InUseClientsStay'
    BY <1>2 DEF IInv, CodeInv, InUseClientsStay, LiveGrant, LiveCode, LiveClient, vars
  <2>3. UNCHANGED <<grants, reqVars>>
    BY <1>2 DEF vars, reqVars
  <2> QED BY <2>1, <2>2, <2>3, GrantsUntouched DEF IInv
<1> QED BY <1>1, <1>2, TickKeepsInvariant, RegisterKeepsInvariant, ApproveKeepsInvariant,
           RevokeDeviceKeepsInvariant, SweepClientsKeepsInvariant, SweepCodesKeepsInvariant DEF Next

\* The inductive invariant holds in every reachable state of the
\* authorization server.
THEOREM Invariant == Spec => []IInv
BY InitInvariant, NextKeepsInvariant, PTL DEF Spec

\* The rows and the requests keep their types.
THEOREM TypeCorrect == Spec => []TypeOK
<1>1. IInv => TypeOK
  BY DEF IInv
<1> QED BY <1>1, Invariant, PTL

\* A code and a refresh secret are traded at most once: DELETE ... RETURNING
\* for codes, the compare-and-swap of Rotate for secrets.
THEOREM TradedOnce == Spec => []RedeemedOnce
<1>1. IInv => RedeemedOnce
  BY DEF IInv
<1> QED BY <1>1, Invariant, PTL

\* A reused secret points at one family of secrets.
THEOREM Families == Spec => []FamiliesDisjoint
<1>1. IInv => FamiliesDisjoint
  BY DEF IInv
<1> QED BY <1>1, Invariant, PTL

\* A secret that was answered as reused is no live grant's current or
\* previous secret.
THEOREM ReuseIsFinal == Spec => []ReusedSecretIsDead
<1>1. IInv => ReusedSecretIsDead
  BY DEF IInv
<1> QED BY <1>1, Invariant, PTL

\* The sweep of unused clients never leaves a live grant or code without its
\* client.
THEOREM ClientsStay == Spec => []InUseClientsStay
<1>1. IInv => InUseClientsStay
  BY DEF IInv
<1> QED BY <1>1, Invariant, PTL

\* What a step of the server does to the rows of grants and codes: a row
\* stays, dead ones stay dead, and only a rotation moves the last use.
LEMMA RowsOverAStep ==
    ASSUME IInv, [Next]_vars
    PROVE  /\ \A g \in Requests : grants[g] # None /\ LiveGrant(g)' => LiveGrant(g)
           /\ \A k \in Codes : codes[k] # None /\ LiveCode(k)' => LiveCode(k)
           /\ \A g \in Requests : grants[g] # None /\ grants'[g].used # grants[g].used =>
                 \E r \in Requests : Rotate(r) /\ g = tgt[r] /\ LiveGrant(g) /\ grants[g].cur = sec[r]
<1> DEFINE Dead ==
      /\ \A g \in Requests : grants[g] # None /\ LiveGrant(g)' => LiveGrant(g)
      /\ \A k \in Codes : codes[k] # None /\ LiveCode(k)' => LiveCode(k)
           Same ==
      \A g \in Requests : grants[g] # None => grants'[g].used = grants[g].used
<1> USE DEF reqVars
<1>1. CASE UNCHANGED <<grants, codes>>
  BY <1>1 DEF LiveGrant, LiveCode
<1>2. ASSUME NEW c \in Clients, NEW k \in Codes, Approve(k, c) PROVE Dead /\ Same
  <2>1. ASSUME NEW j \in Codes, codes[j] # None, LiveCode(j)' PROVE LiveCode(j)
    BY <1>2, <2>1, UnexpiredRow DEF IInv, Approve, LiveCode
  <2> QED BY <1>2, <2>1 DEF Approve, LiveGrant
<1>3. CASE SweepCodes
  <2>1. ASSUME NEW j \in Codes, codes[j] # None, LiveCode(j)' PROVE LiveCode(j)
    BY <1>3, <2>1, UnexpiredRow DEF IInv, SweepCodes, LiveCode
  <2> QED BY <1>3, <2>1 DEF SweepCodes, LiveGrant
<1>4. ASSUME NEW r \in Requests, NEW k \in Codes, Consume(r, k) PROVE Dead /\ Same
  <2>1. ASSUME NEW j \in Codes, codes[j] # None, LiveCode(j)' PROVE LiveCode(j)
    BY <1>4, <2>1 DEF IInv, TypeOK, Consume, LiveCode
  <2> QED BY <1>4, <2>1 DEF Consume, LiveGrant
<1>5. ASSUME NEW r \in Requests, Issue(r) PROVE Dead /\ Same
  <2>1. grants[r] = None
    BY <1>5 DEF IInv, CodeInv, Issue
  <2>2. \A g \in Requests : g # r => grants'[g] = grants[g]
    BY <1>5 DEF IInv, TypeOK, Issue
  <2> QED BY <1>5, <2>1, <2>2 DEF Issue, LiveGrant, LiveCode
<1>6. ASSUME NEW r \in Requests, Revoke(r) PROVE Dead /\ Same
  <2>1. \A g \in Requests : LiveGrant(g) => grants[g] \in Grant
    BY Rows DEF IInv, LiveGrant
  <2> QED BY <1>6, <2>1 DEF Revoke, LiveGrant, LiveCode, Grant
<1>7. ASSUME NEW d \in Requests, RevokeDevice(d) PROVE Dead /\ Same
  <2>1. grants[d] \in Grant
    BY <1>7, Rows DEF IInv, RevokeDevice, LiveGrant
  <2> QED BY <1>7, <2>1 DEF IInv, TypeOK, RevokeDevice, LiveGrant, LiveCode, Grant
<1>8. ASSUME NEW r \in Requests, Rotate(r)
      PROVE  Dead /\ \A g \in Requests : grants[g] # None /\ grants'[g].used # grants[g].used =>
                        g = tgt[r] /\ LiveGrant(g) /\ grants[g].cur = sec[r]
  <2>1. CASE LiveGrant(tgt[r]) /\ grants[tgt[r]].cur = sec[r]
    <3>1. \A h \in Requests : h # tgt[r] => grants'[h] = grants[h]
      BY <1>8, <2>1, RotateWrites
    <3> QED BY <1>8, <2>1, <3>1 DEF Rotate, LiveGrant, LiveCode
  <2>2. CASE ~(LiveGrant(tgt[r]) /\ grants[tgt[r]].cur = sec[r])
    BY <1>8, <2>2 DEF Rotate, LiveGrant, LiveCode
  <2> QED BY <2>1, <2>2
<1>9. CASE \/ UNCHANGED vars \/ Tick \/ SweepClients
           \/ \E c \in Clients : Register(c)
           \/ \E r, s, g \in Requests : RefreshFound(r, s, g) \/ RefreshUnknown(r, s) \/ Fail(r)
  <2>1. UNCHANGED <<grants, codes>>
    BY <1>9 DEF vars, Tick, SweepClients, Register, RefreshFound, RefreshUnknown, Fail
  <2> QED BY <1>1, <2>1
<1>10. CASE \E r \in Requests : RequestStep(r)
  BY <1>4, <1>5, <1>6, <1>8, <1>9, <1>10 DEF RequestStep
<1> QED BY <1>2, <1>3, <1>7, <1>9, <1>10 DEF Next

\* A deleted grant and a consumed code never come back, whatever rotation was
\* under way when they went.
THEOREM DeadForGood == Spec => DeadStaysDead
<1>1. IInv /\ [Next]_vars =>
        [/\ \A g \in Requests : grants[g] # None /\ ~LiveGrant(g) => ~LiveGrant(g)'
         /\ \A k \in Codes : codes[k] # None /\ ~LiveCode(k) => ~LiveCode(k)']_vars
  BY RowsOverAStep
<1> QED BY <1>1, Invariant, PTL DEF Spec, DeadStaysDead

\* A rotation renews a grant only inside both of its windows, although the
\* windows were checked at an earlier statement than the one that renews.
THEOREM RenewalsInTime == Spec => RenewedInTime
<1>1. IInv /\ [Next]_vars =>
        [\A g \in Requests : grants[g] # None /\ grants'[g].used # grants[g].used =>
           /\ LastUse(grants[g]) <= grants'[g].used
           /\ grants'[g].used < LastUse(grants[g]) + Sliding
           /\ grants'[g].used < grants[g].created + MaxLife]_vars
  <2> SUFFICES ASSUME IInv, [Next]_vars, NEW g \in Requests, grants[g] # None,
                      grants'[g].used # grants[g].used
               PROVE  /\ LastUse(grants[g]) <= grants'[g].used
                      /\ grants'[g].used < LastUse(grants[g]) + Sliding
                      /\ grants'[g].used < grants[g].created + MaxLife
    OBVIOUS
  <2>1. PICK r \in Requests : Rotate(r) /\ g = tgt[r] /\ LiveGrant(g) /\ grants[g].cur = sec[r]
    BY RowsOverAStep
  <2>2. grants'[g].used = at[r] /\ LastUse(grants[g]) <= at[r] /\ Active(grants[g], at[r])
    <3>1. /\ grants'[g] = [client |-> grants[g].client, cur |-> r, prev |-> sec[r],
                           created |-> grants[g].created, used |-> at[r], live |-> grants[g].live]
          /\ LastUse(grants[g]) <= at[r] /\ Active(grants[g], at[r])
      BY <2>1, RotateWrites
    <3> QED BY <3>1
  <2> QED BY <2>2 DEF Active
<1> QED BY <1>1, Invariant, PTL DEF Spec, RenewedInTime

-----------------------------------------------------------------------------
(***************************************************************************)
(* Keys and tables.                                                        *)
(***************************************************************************)

\* A key says what it is the key of.
LEMMA KeyFacts ==
    /\ \A f : pkFunc(f)[1] = "FUNC" /\ pkFunc(f)[2] = f /\ Len(pkFunc(f)) = 2
    /\ \A f, v : skVersion(f, v)[1] = "FUNC" /\ skVersion(f, v)[2] = f /\ Len(skVersion(f, v)) = 4
    /\ \A f : skEnv(f)[1] = "FUNC" /\ skEnv(f)[2] = f /\ Len(skEnv(f)) = 3
    /\ \A o, n : pkFuncPtr(o, n)[1] = "PTR" /\ pkFuncPtr(o, n)[2] = o /\ pkFuncPtr(o, n)[3] = n
    /\ \A n : pkFuncName(n)[1] = "NAME" /\ pkFuncName(n)[2] = n
    /\ \A o, f : pkFuncList(o, f)[1] = "LIST" /\ pkFuncList(o, f)[3] = f
    /\ \A s : pkFuncCount(s)[1] = "COUNT" /\ pkFuncCount(s)[2] = s
    /\ \A v : pkVersion(v)[1] = "VER" /\ pkVersion(v)[2] = v
    /\ \A u : pkUser(u)[1] = "USER" /\ pkUser(u)[2] = u
    /\ \A s : pkUserProviderSubject(s)[1] = "SUBJECT" /\ pkUserProviderSubject(s)[2] = s
    /\ \A s : pkUserSubLegacy(s)[1] = "SUB"
    /\ \A h : pkHandle(h)[1] = "HANDLE" /\ pkHandle(h)[2] = h
    /\ \A w : pkWorkspace(w)[1] = "WS" /\ pkWorkspace(w)[2] = w /\ Len(pkWorkspace(w)) = 2
    /\ \A w, u : skMember(w, u)[1] = "WS" /\ skMember(w, u)[2] = w /\ Len(skMember(w, u)) = 4
    /\ \A h : pkOAuthGrant(h)[1] = "GRANT" /\ pkOAuthGrant(h)[2] = h
    /\ \A g : pkOAuthGrantID(g)[1] = "GRANTID" /\ pkOAuthGrantID(g)[2] = g
              /\ Len(pkOAuthGrantID(g)) = 2
    /\ \A h : pkOAuthGrantPrev(h)[1] = "PREV"
    /\ Lock[1] = "ORG"
BY DEF pkFunc, skVersion, skEnv, pkFuncPtr, pkFuncName, pkFuncList, pkFuncCount, pkVersion, pkUser,
       pkUserProviderSubject, pkUserSubLegacy, pkHandle, pkWorkspace, skMember, pkOAuthGrant,
       pkOAuthGrantID, pkOAuthGrantPrev, Lock

\* What a put does to a table.
LEMMA PutFacts ==
    \A d, k, x : /\ DOMAIN Put(d, k, x) = DOMAIN d \cup {k}
                 /\ Put(d, k, x)[k] = x
                 /\ \A j \in DOMAIN d : j # k => Put(d, k, x)[j] = d[j]
BY DEF Put

\* What a delete does to a table.
LEMMA WithoutFacts ==
    \A d, K : /\ DOMAIN Without(d, K) = DOMAIN d \ K
              /\ \A j \in DOMAIN d \ K : Without(d, K)[j] = d[j]
BY DEF Without

\* A key that is there stays there in a put, ...
LEMMA PutHas ==
    ASSUME NEW d, NEW k, NEW x, NEW j, j = k \/ j \in DOMAIN d
    PROVE  j \in DOMAIN Put(d, k, x)
BY DEF Put

\* ... and in a delete of others.
LEMMA WithoutHas ==
    ASSUME NEW d, NEW K, NEW j \in DOMAIN d, j \notin K
    PROVE  j \in DOMAIN Without(d, K)
BY DEF Without

\* An update of an item that is there puts the item.
LEMMA UpdateIsPut ==
    ASSUME NEW d, NEW k \in DOMAIN d, NEW x
    PROVE  [d EXCEPT ![k] = x] = Put(d, k, x)
BY DEF Put

Names == {NameOf[f] : f \in Fns}
Creators == {CreatorOf[f] : f \in Fns} \cup {Nil}

\* The row of the function f, the claim of a name, the row of a user, and the
\* item of a refresh secret.
FnRow(f) == [id : {f}, owner : {OwnerOf[f]}, name : {NameOf[f]}, creator : Creators,
             active : Vers \cup {Nil}]
NameClaim == [fn : Fns, state : {"active", "tombstoned"}]
UserRow == [id : Users, subject : Subjects \cup {Nil}, role : {"admin", "member"}]
GrantItem == [id : Grants, prev : Calls \cup {Nil}]

\* The keys of rows and claims name what there is, ...
KeyOK(k) ==
    /\ k[1] = "FUNC" /\ Len(k) = 2 => \E f \in Fns : k = pkFunc(f)
    /\ k[1] = "NAME" => \E n \in Names : k = pkFuncName(n)
    /\ k[1] = "USER" => \E u \in Users : k = pkUser(u)
    /\ k[1] = "GRANTID" => \E g \in Grants : k = pkOAuthGrantID(g)

\* ... and an item has the shape its key says.
ItemOK(k, x) ==
    /\ k[1] = "FUNC" /\ Len(k) = 2 => x \in FnRow(k[2])
    /\ k[1] = "NAME" => x \in NameClaim
    /\ k[1] = "COUNT" => x \in Int
    /\ k[1] = "USER" => x \in UserRow /\ (x.subject = Nil => k[2] \in OldUsers)
    /\ k[1] = "GRANT" => x \in GrantItem
    /\ k[1] = "GRANTID" => x \in Calls

TableOK(d) == \A k \in DOMAIN d : KeyOK(k) /\ ItemOK(k, d[k])

\* A put of an item of its key's shape, and a delete, keep the table's shape.
LEMMA TablePut ==
    ASSUME NEW d, TableOK(d), NEW k, KeyOK(k), NEW x, ItemOK(k, x)
    PROVE  TableOK(Put(d, k, x))
<1>1. ASSUME NEW j \in DOMAIN Put(d, k, x) PROVE KeyOK(j) /\ ItemOK(j, Put(d, k, x)[j])
  <2>1. CASE j = k
    BY <2>1, PutFacts
  <2>2. CASE j # k
    <3>1. j \in DOMAIN d /\ Put(d, k, x)[j] = d[j]
      BY <1>1, <2>2 DEF Put
    <3> QED BY <3>1 DEF TableOK
  <2> QED BY <2>1, <2>2
<1> QED BY <1>1 DEF TableOK

\* See TablePut.
LEMMA TableWithout ==
    ASSUME NEW d, TableOK(d), NEW K
    PROVE  TableOK(Without(d, K))
<1>1. ASSUME NEW j \in DOMAIN Without(d, K) PROVE KeyOK(j) /\ ItemOK(j, Without(d, K)[j])
  <2>1. j \in DOMAIN d /\ Without(d, K)[j] = d[j]
    BY <1>1 DEF Without
  <2> QED BY <2>1 DEF TableOK
<1> QED BY <1>1 DEF TableOK

\* Keys of a kind no shape is asked of.
LEMMA PlainKeys ==
    ASSUME NEW k, NEW x, \/ k[1] \in {"PTR", "LIST", "VER", "SUBJECT", "SUB", "HANDLE", "WS", "PREV", "ORG"}
                         \/ k[1] = "FUNC" /\ Len(k) # 2
    PROVE  KeyOK(k) /\ ItemOK(k, x)
BY DEF KeyOK, ItemOK

\* The shaped ones.
LEMMA ShapedKeys ==
    /\ \A f \in Fns : \A x \in FnRow(f) : KeyOK(pkFunc(f)) /\ ItemOK(pkFunc(f), x)
    /\ \A n \in Names : \A x \in NameClaim : KeyOK(pkFuncName(n)) /\ ItemOK(pkFuncName(n), x)
    /\ \A s : \A x \in Int : KeyOK(pkFuncCount(s)) /\ ItemOK(pkFuncCount(s), x)
    /\ \A u \in Users : \A x \in UserRow :
         (x.subject = Nil => u \in OldUsers) => KeyOK(pkUser(u)) /\ ItemOK(pkUser(u), x)
    /\ \A h : \A x \in GrantItem : KeyOK(pkOAuthGrant(h)) /\ ItemOK(pkOAuthGrant(h), x)
    /\ \A g \in Grants : \A x \in Calls : KeyOK(pkOAuthGrantID(g)) /\ ItemOK(pkOAuthGrantID(g), x)
BY KeyFacts DEF KeyOK, ItemOK

\* What a table of the right shape holds.
LEMMA TableHas ==
    ASSUME NEW d, TableOK(d)
    PROVE  /\ \A f : pkFunc(f) \in DOMAIN d => f \in Fns /\ d[pkFunc(f)] \in FnRow(f)
           /\ \A n : pkFuncName(n) \in DOMAIN d => n \in Names /\ d[pkFuncName(n)] \in NameClaim
           /\ \A s : pkFuncCount(s) \in DOMAIN d => d[pkFuncCount(s)] \in Int
           /\ \A u : pkUser(u) \in DOMAIN d =>
                u \in Users /\ d[pkUser(u)] \in UserRow
                /\ (d[pkUser(u)].subject = Nil => u \in OldUsers)
           /\ \A h : pkOAuthGrant(h) \in DOMAIN d => d[pkOAuthGrant(h)] \in GrantItem
           /\ \A g : pkOAuthGrantID(g) \in DOMAIN d => g \in Grants /\ d[pkOAuthGrantID(g)] \in Calls
<1>1. \A f : pkFunc(f) \in DOMAIN d => f \in Fns /\ d[pkFunc(f)] \in FnRow(f)
  BY KeyFacts DEF TableOK, KeyOK, ItemOK
<1>2. \A n : pkFuncName(n) \in DOMAIN d => n \in Names /\ d[pkFuncName(n)] \in NameClaim
  BY KeyFacts DEF TableOK, KeyOK, ItemOK
<1>3. \A s : pkFuncCount(s) \in DOMAIN d => d[pkFuncCount(s)] \in Int
  BY KeyFacts DEF TableOK, ItemOK
<1>4. \A u : pkUser(u) \in DOMAIN d =>
                u \in Users /\ d[pkUser(u)] \in UserRow
                /\ (d[pkUser(u)].subject = Nil => u \in OldUsers)
  BY KeyFacts DEF TableOK, KeyOK, ItemOK
<1>5. \A h : pkOAuthGrant(h) \in DOMAIN d => d[pkOAuthGrant(h)] \in GrantItem
  BY KeyFacts DEF TableOK, ItemOK
<1>6. \A g : pkOAuthGrantID(g) \in DOMAIN d => g \in Grants /\ d[pkOAuthGrantID(g)] \in Calls
  BY KeyFacts DEF TableOK, KeyOK, ItemOK
<1> QED BY <1>1, <1>2, <1>3, <1>4, <1>5, <1>6

-----------------------------------------------------------------------------
(***************************************************************************)
(* The inductive invariant.  Its parts are about a table d, the ids b that *)
(* were given out and the registers r of one call, so that they can be     *)
(* compared before and after a step.                                       *)
(***************************************************************************)

Named(d, n) == pkFuncName(n) \in DOMAIN d
Retired(d, n) == Named(d, n) /\ d[pkFuncName(n)].state = "tombstoned"
IsOf(d, v, f) == pkVersion(v) \in DOMAIN d /\ d[pkVersion(v)] = f

\* The pointer and the list entry by which a function's owner finds it.
Listed(d, f) ==
    /\ pkFuncPtr(OwnerOf[f], NameOf[f]) \in DOMAIN d
    /\ d[pkFuncPtr(OwnerOf[f], NameOf[f])] = f
    /\ pkFuncList(OwnerOf[f], f) \in DOMAIN d

\* A function whose name is not retired is whole, the version it runs is its
\* own, and a name in use is of a function that is there.
FnsOK(d) ==
    /\ \A f \in Fns : pkFunc(f) \in DOMAIN d =>
         /\ Retired(d, NameOf[f]) \/ Listed(d, f)
         /\ d[pkFunc(f)].active # Nil => IsOf(d, d[pkFunc(f)].active, f)
    /\ \A n \in Names : Named(d, n) /\ ~Retired(d, n) =>
         \E f \in Fns : /\ d[pkFuncName(n)] = Claim(f)
                        /\ NameOf[f] = n
                        /\ pkFunc(f) \in DOMAIN d

\* What is there was given out, and has not been settled.
GivenOut(d, b, t) ==
    /\ t \subseteq b
    /\ \A f \in Fns : pkFunc(f) \in DOMAIN d => f \in b \ t

\* Nobody is a user before the organization's lock is there.
LockOK(d) == \A k \in DOMAIN d : k[1] \in {"USER", "SUBJECT"} => Lock \in DOMAIN d

\* Two grants never have the same secret, a secret in force was minted, and one
\* that was traded is not in force any more.
SecretsOK(d, m, w) ==
    /\ \A g, h \in Grants :
         /\ pkOAuthGrantID(g) \in DOMAIN d /\ pkOAuthGrantID(h) \in DOMAIN d
         /\ d[pkOAuthGrantID(g)] = d[pkOAuthGrantID(h)]
         => g = h
    /\ \A g \in Grants : pkOAuthGrantID(g) \in DOMAIN d => d[pkOAuthGrantID(g)] \in m
    /\ \A c \in Calls : w[c] # Nil =>
         /\ w[c] \in m
         /\ \A g \in Grants : pkOAuthGrantID(g) \in DOMAIN d => d[pkOAuthGrantID(g)] # w[c]

Reg(c) == [loc |-> loc[c], op |-> op[c], arg |-> arg[c], got |-> got[c], todo |-> todo[c]]

\* A function's row as a call has read it: its version is still there, and the
\* creator is still the one of the row, if there is a row.
Loaded(d, b, g) ==
    /\ g.id \in Fns \cap b /\ g \in FnRow(g.id)
    /\ g.active # Nil => IsOf(d, g.active, g.id)
    /\ pkFunc(g.id) \in DOMAIN d => d[pkFunc(g.id)].creator = g.creator

\* A batch deletes nothing of a function whose name is not retired, and no
\* claim, version, counter, user, subject or public id.
TodoOK(d, t) ==
    \A k \in t :
       /\ k[1] \in {"FUNC", "PTR", "LIST", "WS", "GRANT", "GRANTID", "PREV"}
       /\ \A f \in Fns :
            k \in {pkFunc(f), pkFuncPtr(OwnerOf[f], NameOf[f]), pkFuncList(OwnerOf[f], f)} =>
                Retired(d, NameOf[f])

\* A call that is deleting a function and has not yet counted it.
Deleting(r) ==
    \/ r.loc \in {"tombstone", "query", "count", "recount"}
    \/ r.loc = "batch" /\ r.op = "Delete"

RegOK(d, b, r) ==
    /\ r.loc = "put" \/ Deleting(r) => Loaded(d, b, r.got)
    /\ r.loc \in {"tombstone", "query"} => r.op = "Delete"
    /\ r.loc \in {"pointer", "prev"} => r.op # "Delete"
    /\ Deleting(r) => Named(d, r.got.name) /\ (r.loc = "tombstone" \/ Retired(d, r.got.name))
    /\ r.loc = "batch" => TodoOK(d, r.todo)
    /\ r.loc = "batch" /\ r.op = "Delete" =>
         pkFunc(r.got.id) \notin DOMAIN d \/ pkFunc(r.got.id) \in r.todo
    /\ r.loc \in {"count", "recount"} => pkFunc(r.got.id) \notin DOMAIN d
    /\ r.loc = "activate" => \E f \in Fns, v \in Vers : r.arg = <<f, v>> /\ IsOf(d, v, f)
    /\ r.loc = "user" => r.arg \in UserRow /\ r.arg.subject # Nil

Phases == {"names", "handles", "subjects", "pointer", "unlink", "creators", "counts", "serving"}
Places == Over \cup {"put", "tombstone", "query", "batch", "count", "recount", "activate", "user",
                     "rename", "rotate", "pointer", "prev", "unprev"}

TypeInv ==
    /\ TableOK(db)
    /\ phase \in Phases /\ mig \in Users \cup {Nil} /\ crashes \in 0 .. MaxCrashes
    /\ minted \subseteq Calls
    /\ loc \in [Calls -> Places] /\ won \in [Calls -> Calls \cup {Nil}]
    /\ DOMAIN op = Calls /\ DOMAIN arg = Calls /\ DOMAIN got = Calls /\ DOMAIN todo = Calls
    /\ extra \in [Scopes -> Nat]

\* No call runs during a migration.
PhaseInv ==
    /\ phase # "serving" => \A c \in Calls : loc[c] \in Over
    /\ phase \in {"pointer", "unlink"} => Lock \in DOMAIN db
    /\ phase # "names" => \A f \in Fns : pkFunc(f) \in DOMAIN db => Named(db, NameOf[f])

\* A call mints its secret when it ends.
MintInv == \A c \in Calls : loc[c] \in {"start", "rotate"} => c \notin minted /\ won[c] = Nil

\* The functions a counter owes: those with a row, and those whose deletion has
\* not been counted yet.
OwedFn(f, s) ==
    \/ pkFunc(f) \in DOMAIN db /\ functionCountScope(db[pkFunc(f)]) = s
    \/ /\ f \notin settled
       /\ \E c \in Calls : Deleting(Reg(c)) /\ got[c].id = f /\ functionCountScope(got[c]) = s
Owed(s) == {pkFunc(f) : f \in {g \in Fns : OwedFn(g, s)}}

CountInv == phase = "serving" => \A s \in Scopes : CountIn(s) + extra[s] >= Cardinality(Owed(s))

StoreInv ==
    /\ TypeInv /\ PhaseInv /\ MintInv /\ CountInv
    /\ FnsOK(db) /\ GivenOut(db, born, settled) /\ LockOK(db) /\ SecretsOK(db, minted, won)
    /\ \A c \in Calls : RegOK(db, born, Reg(c))

-----------------------------------------------------------------------------
(***************************************************************************)
(* What a statement leaves alone.                                          *)
(***************************************************************************)

\* The key k is in the table e as it was in the table d.
Kept(d, e, k) == (k \in DOMAIN e <=> k \in DOMAIN d) /\ (k \in DOMAIN d => e[k] = d[k])

\* What the invariant says of functions is about these keys.
IsFnKey(k) == k[1] \in {"NAME", "PTR", "LIST", "VER"} \/ (k[1] = "FUNC" /\ Len(k) = 2)

FnKept(d, e) == \A k : IsFnKey(k) => Kept(d, e, k)
CountKept(d, e) == \A s : Kept(d, e, pkFuncCount(s))
IdKept(d, e) == \A g : Kept(d, e, pkOAuthGrantID(g))

\* What is there for good: claims, the state of a retired name, subjects and
\* public ids in place, versions and the lock; and no row comes back.
Lasting(d, b, e) ==
    /\ \A k \in DOMAIN d : k[1] = "NAME" =>
         /\ k \in DOMAIN e /\ e[k].fn = d[k].fn
         /\ d[k].state = "tombstoned" => e[k] = d[k]
    /\ \A k \in DOMAIN d \cap DOMAIN e : k[1] \in {"SUBJECT", "HANDLE"} => e[k] = d[k]
    /\ \A k \in DOMAIN d : k[1] = "VER" => k \in DOMAIN e /\ e[k] = d[k]
    /\ \A k \in DOMAIN e \ DOMAIN d : k[1] \in {"FUNC", "WS"} /\ Len(k) = 2 => k[2] \notin b
    /\ Lock \in DOMAIN d => Lock \in DOMAIN e

\* No call changes whose a row's quota is.
SameCreators(d, e) ==
    \A f \in Fns : pkFunc(f) \in DOMAIN d \cap DOMAIN e => e[pkFunc(f)].creator = d[pkFunc(f)].creator

\* A put leaves the other keys alone, ...
LEMMA PutKept ==
    ASSUME NEW d, NEW e, NEW k, NEW x, NEW j, j # k, Kept(d, e, j)
    PROVE  Kept(d, Put(e, k, x), j)
BY DEF Kept, Put

\* ... and so does a delete.
LEMMA WithoutKept ==
    ASSUME NEW d, NEW e, NEW K, NEW j, j \notin K, Kept(d, e, j)
    PROVE  Kept(d, Without(e, K), j)
BY DEF Kept, Without

\* A table lasts.
LEMMA LastingSelf ==
    ASSUME NEW d, NEW b
    PROVE  Lasting(d, b, d)
BY DEF Lasting

\* A put that a condition guards where one is needed.
LEMMA LastingPut ==
    ASSUME NEW d, NEW b, NEW e, Lasting(d, b, e), NEW k, NEW x,
           k[1] = "NAME" => \/ k \notin DOMAIN d
                            \/ x.fn = d[k].fn /\ (d[k].state = "tombstoned" => x = d[k]),
           k[1] \in {"SUBJECT", "HANDLE", "VER"} => k \notin DOMAIN d,
           k[1] \in {"FUNC", "WS"} /\ Len(k) = 2 => k \in DOMAIN d \/ k[2] \notin b
    PROVE  Lasting(d, b, Put(e, k, x))
<1>1. \A j \in DOMAIN d : j[1] = "NAME" =>
        /\ j \in DOMAIN Put(e, k, x) /\ Put(e, k, x)[j].fn = d[j].fn
        /\ d[j].state = "tombstoned" => Put(e, k, x)[j] = d[j]
  BY DEF Lasting, Put
<1>2. \A j \in DOMAIN d \cap DOMAIN Put(e, k, x) : j[1] \in {"SUBJECT", "HANDLE"} =>
        Put(e, k, x)[j] = d[j]
  BY DEF Lasting, Put
<1>3. \A j \in DOMAIN d : j[1] = "VER" => j \in DOMAIN Put(e, k, x) /\ Put(e, k, x)[j] = d[j]
  BY DEF Lasting, Put
<1>4. \A j \in DOMAIN Put(e, k, x) \ DOMAIN d :
        j[1] \in {"FUNC", "WS"} /\ Len(j) = 2 => j[2] \notin b
  BY DEF Lasting, Put
<1>5. Lock \in DOMAIN d => Lock \in DOMAIN Put(e, k, x)
  BY DEF Lasting, Put
<1> QED BY <1>1, <1>2, <1>3, <1>4, <1>5 DEF Lasting

\* A delete of what may go.
LEMMA LastingWithout ==
    ASSUME NEW d, NEW b, NEW e, Lasting(d, b, e), NEW K,
           \A k \in K : k[1] \notin {"NAME", "VER", "ORG"}
    PROVE  Lasting(d, b, Without(e, K))
<1>1. \A j \in DOMAIN d : j[1] = "NAME" =>
        /\ j \in DOMAIN Without(e, K) /\ Without(e, K)[j].fn = d[j].fn
        /\ d[j].state = "tombstoned" => Without(e, K)[j] = d[j]
  BY DEF Lasting, Without
<1>2. \A j \in DOMAIN d \cap DOMAIN Without(e, K) : j[1] \in {"SUBJECT", "HANDLE"} =>
        Without(e, K)[j] = d[j]
  BY DEF Lasting, Without
<1>3. \A j \in DOMAIN d : j[1] = "VER" => j \in DOMAIN Without(e, K) /\ Without(e, K)[j] = d[j]
  BY DEF Lasting, Without
<1>4. \A j \in DOMAIN Without(e, K) \ DOMAIN d :
        j[1] \in {"FUNC", "WS"} /\ Len(j) = 2 => j[2] \notin b
  BY DEF Lasting, Without
<1>5. Lock \in DOMAIN d => Lock \in DOMAIN Without(e, K)
  BY KeyFacts DEF Lasting, Without
<1> QED BY <1>1, <1>2, <1>3, <1>4, <1>5 DEF Lasting

\* Users are added under the lock.
LEMMA LockPut ==
    ASSUME NEW d, LockOK(d), NEW k, NEW x, k[1] \in {"USER", "SUBJECT"} => Lock \in DOMAIN d
    PROVE  LockOK(Put(d, k, x))
BY DEF LockOK, Put

\* The lock stays.
LEMMA LockWithout ==
    ASSUME NEW d, LockOK(d), NEW K, \A k \in K : k[1] # "ORG"
    PROVE  LockOK(Without(d, K))
BY KeyFacts DEF LockOK, Without

\* A call's registers stay right under another's statement.
LEMMA RegFrame ==
    ASSUME NEW d, NEW b, NEW e, NEW bb, NEW r, RegOK(d, b, r),
           b \subseteq bb, Lasting(d, b, e), SameCreators(d, e)
    PROVE  RegOK(e, bb, r)
<1>1. \A f : f \in b /\ pkFunc(f) \in DOMAIN e => pkFunc(f) \in DOMAIN d
  BY KeyFacts DEF Lasting
<1>2. \A n : Named(d, n) => Named(e, n)
  BY KeyFacts DEF Lasting, Named
<1>3. \A n : Retired(d, n) => Retired(e, n)
  BY KeyFacts DEF Lasting, Named, Retired
<1>4. \A v, f : IsOf(d, v, f) => IsOf(e, v, f)
  BY KeyFacts DEF Lasting, IsOf
<1>5. Loaded(d, b, r.got) => Loaded(e, bb, r.got)
  BY <1>1, <1>4 DEF Loaded, SameCreators
<1>6. TodoOK(d, r.todo) => TodoOK(e, r.todo)
  BY <1>3 DEF TodoOK
<1>7. r.loc = "batch" /\ r.op = "Delete" =>
        pkFunc(r.got.id) \notin DOMAIN e \/ pkFunc(r.got.id) \in r.todo
  BY <1>1 DEF RegOK, Loaded, Deleting
<1>8. r.loc \in {"count", "recount"} => pkFunc(r.got.id) \notin DOMAIN e
  BY <1>1 DEF RegOK, Loaded, Deleting
<1>9. r.loc = "activate" => \E f \in Fns, v \in Vers : r.arg = <<f, v>> /\ IsOf(e, v, f)
  BY <1>4 DEF RegOK
<1> QED BY <1>2, <1>3, <1>5, <1>6, <1>7, <1>8, <1>9 DEF RegOK

\* A call that is over has nothing to keep.
LEMMA OverReg ==
    ASSUME NEW d, NEW b, NEW r, r.loc \in Over
    PROVE  RegOK(d, b, r)
BY DEF RegOK, Deleting, Over

\* What the invariant says of functions holds of a table with the same keys.
LEMMA FnFrame ==
    ASSUME NEW d, NEW e, FnKept(d, e)
    PROVE  /\ FnsOK(d) => FnsOK(e)
           /\ \A b, t : GivenOut(d, b, t) => GivenOut(e, b, t)
           /\ SameCreators(d, e)
           /\ \A f : pkFunc(f) \in DOMAIN e <=> pkFunc(f) \in DOMAIN d
           /\ \A f : pkFunc(f) \in DOMAIN d => e[pkFunc(f)] = d[pkFunc(f)]
           /\ \A n : Named(e, n) <=> Named(d, n)
<1>1. /\ \A f : Kept(d, e, pkFunc(f))
      /\ \A n : Kept(d, e, pkFuncName(n))
      /\ \A o, n : Kept(d, e, pkFuncPtr(o, n))
      /\ \A o, f : Kept(d, e, pkFuncList(o, f))
      /\ \A v : Kept(d, e, pkVersion(v))
  BY KeyFacts DEF FnKept, IsFnKey
<1>2. /\ \A f : pkFunc(f) \in DOMAIN e <=> pkFunc(f) \in DOMAIN d
      /\ \A f : pkFunc(f) \in DOMAIN d => e[pkFunc(f)] = d[pkFunc(f)]
      /\ \A n : Named(e, n) <=> Named(d, n)
      /\ \A n : Named(d, n) => e[pkFuncName(n)] = d[pkFuncName(n)]
      /\ \A n : Retired(e, n) <=> Retired(d, n)
      /\ \A v, f : IsOf(e, v, f) <=> IsOf(d, v, f)
      /\ \A f : Listed(e, f) <=> Listed(d, f)
  BY <1>1 DEF Kept, Named, Retired, IsOf, Listed
<1>3. FnsOK(d) => FnsOK(e)
  BY <1>2 DEF FnsOK
<1>4. \A b, t : GivenOut(d, b, t) => GivenOut(e, b, t)
  BY <1>2 DEF GivenOut
<1>5. SameCreators(d, e)
  BY <1>2 DEF SameCreators
<1> QED BY <1>2, <1>3, <1>4, <1>5

\* What the invariant says of secrets holds of a table with the same pointers.
LEMMA SecretsFrame ==
    ASSUME NEW d, NEW e, IdKept(d, e), NEW m, NEW w, SecretsOK(d, m, w)
    PROVE  SecretsOK(e, m, w)
BY DEF IdKept, Kept, SecretsOK

\* Statements on keys that the invariant asks little of.
Plain(d, b, e) ==
    /\ TableOK(e) /\ LockOK(e) /\ Lasting(d, b, e)
    /\ FnKept(d, e) /\ CountKept(d, e) /\ IdKept(d, e)

\* No statement at all.
LEMMA PlainSelf ==
    ASSUME NEW d, NEW b, TableOK(d), LockOK(d)
    PROVE  Plain(d, b, d)
BY LastingSelf DEF Plain, FnKept, CountKept, IdKept, Kept

\* A put.
LEMMA PlainPut ==
    ASSUME NEW d, NEW b, NEW e, Plain(d, b, e), NEW k, NEW x, KeyOK(k), ItemOK(k, x),
           \/ k[1] \in {"USER", "SUBJECT", "SUB", "HANDLE", "WS", "GRANT", "PREV", "ORG"}
           \/ k[1] = "FUNC" /\ Len(k) # 2,
           k[1] \in {"USER", "SUBJECT"} => Lock \in DOMAIN e,
           k[1] \in {"SUBJECT", "HANDLE"} => k \notin DOMAIN d,
           k[1] = "WS" /\ Len(k) = 2 => k \in DOMAIN d \/ k[2] \notin b
    PROVE  Plain(d, b, Put(e, k, x))
<1>1. TableOK(Put(e, k, x))
  BY TablePut DEF Plain
<1>2. LockOK(Put(e, k, x))
  BY LockPut DEF Plain
<1>3. Lasting(d, b, Put(e, k, x))
  BY LastingPut DEF Plain
<1>4. FnKept(d, Put(e, k, x))
  BY PutKept DEF Plain, FnKept, IsFnKey
<1>5. CountKept(d, Put(e, k, x)) /\ IdKept(d, Put(e, k, x))
  BY PutKept, KeyFacts DEF Plain, CountKept, IdKept
<1> QED BY <1>1, <1>2, <1>3, <1>4, <1>5 DEF Plain

\* A delete.
LEMMA PlainWithout ==
    ASSUME NEW d, NEW b, NEW e, Plain(d, b, e), NEW K,
           \A k \in K : k[1] \in {"SUBJECT", "SUB", "HANDLE", "WS", "GRANT", "PREV"}
    PROVE  Plain(d, b, Without(e, K))
<1>1. TableOK(Without(e, K))
  BY TableWithout DEF Plain
<1>2. LockOK(Without(e, K))
  BY LockWithout DEF Plain
<1>3. Lasting(d, b, Without(e, K))
  BY LastingWithout DEF Plain
<1>4. FnKept(d, Without(e, K))
  BY WithoutKept DEF Plain, FnKept, IsFnKey
<1>5. CountKept(d, Without(e, K)) /\ IdKept(d, Without(e, K))
  BY WithoutKept, KeyFacts DEF Plain, CountKept, IdKept
<1> QED BY <1>1, <1>2, <1>3, <1>4, <1>5 DEF Plain

-----------------------------------------------------------------------------
(***************************************************************************)
(* Counters.                                                               *)
(***************************************************************************)

\* There are finitely many rows.
LEMMA RowsFinite == IsFiniteSet({pkFunc(f) : f \in Fns})
<1> DEFINE T == {pkFunc(f) : f \in Fns}
           F == [f \in Fns |-> pkFunc(f)]
<1>1. F \in Surjection(Fns, T)
  BY DEF Surjection
<1> QED BY <1>1, FS_Surjection, FinitenessAssumption

\* Of two sets of rows, the larger one has as many rows at least.
LEMMA RowsCount ==
    ASSUME NEW S, NEW T, T \subseteq {pkFunc(f) : f \in Fns}, S \subseteq T
    PROVE  /\ IsFiniteSet(T) /\ IsFiniteSet(S)
           /\ Cardinality(S) \in Nat /\ Cardinality(T) \in Nat /\ Cardinality(S) <= Cardinality(T)
<1>1. IsFiniteSet(T)
  BY RowsFinite, FS_Subset
<1>2. IsFiniteSet(S) /\ Cardinality(S) <= Cardinality(T)
  BY <1>1, FS_Subset
<1> QED BY <1>1, <1>2, FS_CardinalityType

\* What a counter owes is a finite number.
LEMMA OwedFinite ==
    ASSUME NEW s
    PROVE  /\ Owed(s) \subseteq {pkFunc(f) : f \in Fns}
           /\ IsFiniteSet(Owed(s)) /\ Cardinality(Owed(s)) \in Nat
<1>1. Owed(s) \subseteq {pkFunc(f) : f \in Fns}
  BY DEF Owed
<1> QED BY <1>1, RowsCount

\* A counter is a number.
LEMMA CountInInt ==
    ASSUME TableOK(db), NEW s
    PROVE  CountIn(s) \in Int
BY TableHas DEF CountIn, Has

\* What a scan counts is the number of these rows, and owed as well.
LEMMA CountedRows ==
    ASSUME TableOK(db), NEW s
    PROVE  /\ Counted(s) \in Nat /\ Counted(s) <= Cardinality(Owed(s))
           /\ (\A c \in Calls : ~Deleting(Reg(c))) => Counted(s) = Cardinality(Owed(s))
<1> DEFINE S == {k \in RowsOf("FUNC") : functionCountScope(db[k]) = s}
<1>1. S \subseteq Owed(s)
  BY DEF RowsOf, TableOK, KeyOK, Owed, OwedFn
<1>2. Cardinality(S) \in Nat /\ Cardinality(S) <= Cardinality(Owed(s))
  BY <1>1, OwedFinite, RowsCount
<1>3. ASSUME \A c \in Calls : ~Deleting(Reg(c)) PROVE S = Owed(s)
  BY <1>1, <1>3, KeyFacts DEF RowsOf, Owed, OwedFn
<1> QED BY <1>2, <1>3 DEF Counted

\* Every row counts in a scope.
LEMMA ScopeOfRow ==
    ASSUME NEW f \in Fns, NEW g \in FnRow(f)
    PROVE  functionCountScope(g) \in Scopes
BY DEF FnRow, Creators, functionCountScope, Scopes

\* A counter that stays covers what does not grow.
LEMMA CountsFrame ==
    ASSUME TypeInv, CountInv, phase' = phase, extra' = extra, CountKept(db, db'),
           \A f \in Fns : \A s : OwedFn(f, s)' => OwedFn(f, s)
    PROVE  CountInv'
<1> SUFFICES ASSUME phase = "serving", NEW s \in Scopes
             PROVE  (CountIn(s) + extra[s] >= Cardinality(Owed(s)))'
  BY DEF CountInv
<1>1. CountIn(s)' = CountIn(s)
  BY DEF CountIn, Has, CountKept, Kept
<1>2. Owed(s)' \subseteq Owed(s)
  BY DEF Owed
<1>3. Cardinality(Owed(s)') <= Cardinality(Owed(s)) /\ Cardinality(Owed(s)') \in Nat
  BY <1>2, OwedFinite, RowsCount
<1>4. CountIn(s) + extra[s] >= Cardinality(Owed(s))
  BY DEF CountInv
<1>5. CountIn(s) \in Int /\ extra[s] \in Nat /\ Cardinality(Owed(s)) \in Nat
  BY CountInInt, OwedFinite DEF TypeInv
<1> HIDE DEF Owed
<1> QED BY <1>1, <1>3, <1>4, <1>5

-----------------------------------------------------------------------------
(***************************************************************************)
(* The steps of a call.                                                    *)
(***************************************************************************)

\* Only the call c moves, and never back to its start.
Moves(c) ==
    /\ phase = "serving" /\ UNCHANGED <<phase, mig, op, crashes>>
    /\ loc' \in [Calls -> Places]
    /\ DOMAIN arg' = Calls /\ DOMAIN got' = Calls /\ DOMAIN todo' = Calls
    /\ \A x \in Calls \ {c} : Reg(x)' = Reg(x)
    /\ loc'[c] # "start" /\ (loc'[c] = "rotate" => loc[c] = "start")

\* The parts of a call's registers.
LEMMA RegParts ==
    \A c : /\ Reg(c).loc = loc[c] /\ Reg(c).op = op[c] /\ Reg(c).arg = arg[c]
           /\ Reg(c).got = got[c] /\ Reg(c).todo = todo[c]
BY DEF Reg

\* See RegParts.
LEMMA RegPartsNext ==
    \A c : /\ Reg(c)'.loc = loc'[c] /\ Reg(c)'.op = op'[c] /\ Reg(c)'.arg = arg'[c]
           /\ Reg(c)'.got = got'[c] /\ Reg(c)'.todo = todo'[c]
BY DEF Reg

\* The refresh secrets in force.
InForce == {db[k] : k \in RowsOf("GRANTID")}

\* They are those that the ids point to.
LEMMA InForceKeys ==
    ASSUME TableOK(db)
    PROVE  InForce = {db[pkOAuthGrantID(g)] : g \in {h \in Grants : pkOAuthGrantID(h) \in DOMAIN db}}
BY KeyFacts DEF InForce, RowsOf, TableOK, KeyOK

\* A statement on no id, of a call that mints nothing, changes no secret.
LEMMA SecretStutter ==
    ASSUME TableOK(db), TableOK(db'), IdKept(db, db'), UNCHANGED <<minted, won>>
    PROVE  UNCHANGED Secrets!vars
<1>1. InForce' = InForce
  BY InForceKeys DEF InForce, RowsOf, TableOK, KeyOK, IdKept, Kept
<1> QED BY <1>1 DEF InForce, Secrets!vars

\* What every step does: it keeps the invariant, what is there for good lasts,
\* and the secrets go the way of one-time codes.
Right ==
    /\ StoreInv'
    /\ Lasting(db, born, db')
    /\ Secrets!Next \/ UNCHANGED Secrets!vars

\* What a step of a call has to show.
LEMMA CallKeeps ==
    ASSUME StoreInv, NEW c \in Calls, Moves(c),
           TableOK(db'), LockOK(db'), Lasting(db, born, db'), SameCreators(db, db'),
           FnsOK(db'), GivenOut(db', born', settled'), born \subseteq born',
           \A f \in Fns : pkFunc(f) \in DOMAIN db' => Named(db', NameOf[f]),
           RegOK(db', born', Reg(c)'),
           SecretsOK(db', minted', won'), MintInv',
           minted' \subseteq Calls, won' \in [Calls -> Calls \cup {Nil}],
           extra' \in [Scopes -> Nat], CountInv',
           Secrets!Next \/ UNCHANGED Secrets!vars
    PROVE  Right
<1>1. TypeInv'
  BY DEF StoreInv, TypeInv, Moves
<1>2. PhaseInv'
  BY DEF PhaseInv, Moves
<1>3. \A x \in Calls : RegOK(db', born', Reg(x)')
  <2> SUFFICES ASSUME NEW x \in Calls, x # c PROVE RegOK(db', born', Reg(x)')
    OBVIOUS
  <2>1. Reg(x)' = Reg(x) /\ RegOK(db, born, Reg(x))
    BY DEF Moves, StoreInv
  <2> QED BY <2>1, RegFrame
<1> QED BY <1>1, <1>2, <1>3 DEF StoreInv, Right

\* A call that neither mints nor trades.
LEMMA MintFrame ==
    ASSUME StoreInv, NEW c \in Calls, Moves(c), UNCHANGED <<minted, won>>
    PROVE  MintInv'
<1>1. \A x \in Calls \ {c} : loc'[x] = loc[x]
  BY RegParts, RegPartsNext DEF Moves
<1> QED BY <1>1 DEF StoreInv, MintInv, Moves

\* No row comes, and none changes its quota.
RowsShrink(d, e) ==
    \A f \in Fns : pkFunc(f) \in DOMAIN e =>
        /\ pkFunc(f) \in DOMAIN d
        /\ functionCountScope(e[pkFunc(f)]) = functionCountScope(d[pkFunc(f)])

\* A call that starts no deletion owes no more than before.
LEMMA OwedFrame ==
    ASSUME StoreInv, NEW c \in Calls, Moves(c), settled \subseteq settled', RowsShrink(db, db'),
           Deleting(Reg(c))' => \/ Deleting(Reg(c)) /\ got'[c] = got[c]
                                \/ /\ pkFunc(got'[c].id) \in DOMAIN db
                                   /\ db[pkFunc(got'[c].id)] = got'[c],
           NEW f \in Fns, NEW s, OwedFn(f, s)'
    PROVE  OwedFn(f, s)
<1>1. CASE pkFunc(f) \in DOMAIN db' /\ functionCountScope(db'[pkFunc(f)]) = s
  BY <1>1 DEF OwedFn, RowsShrink
<1>2. CASE f \notin settled /\ \E x \in Calls :
             Deleting(Reg(x))' /\ got'[x].id = f /\ functionCountScope(got'[x]) = s
  <2>1. PICK x \in Calls : Deleting(Reg(x))' /\ got'[x].id = f /\ functionCountScope(got'[x]) = s
    BY <1>2
  <2>2. CASE x = c
    BY <1>2, <2>1, <2>2 DEF OwedFn
  <2>3. CASE x # c
    <3>1. Reg(x)' = Reg(x) /\ got'[x] = got[x]
      BY <2>3, RegParts, RegPartsNext DEF Moves
    <3>2. Deleting(Reg(x))
      BY <2>1, <3>1
    <3> QED BY <1>2, <2>1, <3>1, <3>2 DEF OwedFn
  <2> QED BY <2>2, <2>3
<1> QED BY <1>1, <1>2 DEF OwedFn

\* A call whose statement is plain, or that only reads.
LEMMA PlainKeeps ==
    ASSUME StoreInv, NEW c \in Calls, Moves(c), Plain(db, born, db'), born \subseteq born',
           UNCHANGED <<settled, extra, minted, won>>,
           RegOK(db', born', Reg(c)'),
           Deleting(Reg(c))' => \/ Deleting(Reg(c)) /\ got'[c] = got[c]
                                \/ /\ pkFunc(got'[c].id) \in DOMAIN db
                                   /\ db[pkFunc(got'[c].id)] = got'[c]
    PROVE  Right
<1>1. MintInv'
  BY MintFrame
<1>2. CountInv'
  <2>1. RowsShrink(db, db')
    BY FnFrame DEF Plain, RowsShrink
  <2> QED BY <2>1, OwedFrame, CountsFrame DEF StoreInv, Plain, Moves
<1>3. FnsOK(db') /\ SameCreators(db, db') /\ GivenOut(db', born, settled)
  BY FnFrame DEF Plain, StoreInv
<1>4. GivenOut(db', born', settled')
  BY <1>3 DEF GivenOut
<1>5. \A f \in Fns : pkFunc(f) \in DOMAIN db' => Named(db', NameOf[f])
  BY FnFrame DEF Plain, StoreInv, PhaseInv, Moves
<1>6. SecretsOK(db', minted', won')
  BY SecretsFrame DEF Plain, StoreInv
<1>7. UNCHANGED Secrets!vars
  BY SecretStutter DEF Plain, StoreInv, TypeInv
<1> QED BY <1>1, <1>2, <1>3, <1>4, <1>5, <1>6, <1>7, CallKeeps DEF Plain, StoreInv, TypeInv

\* A plain statement that ends its call.
LEMMA EndKeeps ==
    ASSUME StoreInv, NEW c \in Calls, Moves(c), Plain(db, born, db'), born \subseteq born',
           UNCHANGED <<settled, extra, minted, won>>, loc'[c] \in Over
    PROVE  Right
<1>1. RegOK(db', born', Reg(c)')
  BY OverReg, RegPartsNext
<1>2. ~Deleting(Reg(c))'
  BY DEF Deleting, Reg, Over
<1> QED BY <1>1, <1>2, PlainKeeps

\* A step that only reads.
LEMMA ReadKeeps ==
    ASSUME StoreInv, NEW c \in Calls, Moves(c), UNCHANGED <<db, ghosts>>,
           RegOK(db, born, Reg(c)'),
           Deleting(Reg(c))' => \/ Deleting(Reg(c)) /\ got'[c] = got[c]
                                \/ /\ pkFunc(got'[c].id) \in DOMAIN db
                                   /\ db[pkFunc(got'[c].id)] = got'[c]
    PROVE  Right
<1>1. Plain(db, born, db')
  BY PlainSelf DEF StoreInv, TypeInv
<1>2. born' = born /\ db' = db /\ UNCHANGED <<settled, extra, minted, won>>
  BY DEF ghosts
<1>3. RegOK(db', born', Reg(c)')
  BY <1>2
<1> QED BY <1>1, <1>2, <1>3, PlainKeeps

\* A row that is there can be loaded.
LEMMA RowLoaded ==
    ASSUME StoreInv, NEW f, pkFunc(f) \in DOMAIN db
    PROVE  /\ f \in Fns \cap born /\ db[pkFunc(f)] \in FnRow(f)
           /\ db[pkFunc(f)].id = f /\ db[pkFunc(f)].name = NameOf[f]
           /\ Loaded(db, born, db[pkFunc(f)])
<1>1. f \in Fns /\ db[pkFunc(f)] \in FnRow(f)
  BY TableHas DEF StoreInv, TypeInv
<1>2. db[pkFunc(f)].id = f /\ db[pkFunc(f)].name = NameOf[f]
  BY <1>1 DEF FnRow
<1>3. f \in born
  BY <1>1 DEF StoreInv, GivenOut
<1>4. db[pkFunc(f)].active # Nil => IsOf(db, db[pkFunc(f)].active, f)
  BY <1>1 DEF StoreInv, FnsOK
<1> QED BY <1>1, <1>2, <1>3, <1>4 DEF Loaded

\* Update and Delete read the row.
LEMMA RowReads ==
    ASSUME StoreInv, NEW c \in Calls, NEW f \in Fns, UpdateRead(c, f) \/ DeleteRead(c, f)
    PROVE  Right
<1> USE DEF Called, MoveTo, server, reg, Has
<1>1. Moves(c) /\ UNCHANGED <<db, ghosts>>
  BY DEF UpdateRead, DeleteRead, Moves, Reg, StoreInv, TypeInv, Places, Over, ghosts
<1>2. CASE pkFunc(f) \notin DOMAIN db
  <2>1. loc'[c] = "ok" /\ Reg(c)'.loc = "ok"
    BY <1>2, RegPartsNext DEF UpdateRead, DeleteRead, StoreInv, TypeInv
  <2> QED BY <1>1, <2>1, OverReg, ReadKeeps DEF Over, Deleting
<1>3. CASE pkFunc(f) \in DOMAIN db /\ UpdateRead(c, f)
  <2>1. Reg(c)'.loc = "put" /\ Reg(c)'.got = db[pkFunc(f)]
    BY <1>3, RegPartsNext DEF UpdateRead, StoreInv, TypeInv
  <2>2. RegOK(db, born, Reg(c)') /\ ~Deleting(Reg(c)')
    BY <1>3, <2>1, RowLoaded DEF RegOK, Deleting
  <2> QED BY <1>1, <2>2, ReadKeeps
<1>4. CASE pkFunc(f) \in DOMAIN db /\ DeleteRead(c, f)
  <2>1. /\ Reg(c)'.loc = "tombstone" /\ Reg(c)'.op = "Delete"
        /\ Reg(c)'.got = db[pkFunc(f)] /\ got'[c] = db[pkFunc(f)]
    BY <1>4, RegPartsNext DEF DeleteRead, StoreInv, TypeInv
  <2>2. Named(db, NameOf[f])
    BY <1>4 DEF StoreInv, PhaseInv, DeleteRead
  <2>3. RegOK(db, born, Reg(c)')
    BY <1>4, <2>1, <2>2, RowLoaded DEF RegOK, Deleting
  <2>4. pkFunc(got'[c].id) \in DOMAIN db /\ db[pkFunc(got'[c].id)] = got'[c]
    BY <1>4, <2>1, RowLoaded
  <2> QED BY <1>1, <2>3, <2>4, ReadKeeps
<1> QED BY <1>2, <1>3, <1>4

\* What a deletion finds in the partition and beside it is of its function.
LEMMA QueryKeeps ==
    ASSUME StoreInv, NEW c \in Calls, DeleteQuery(c)
    PROVE  Right
<1> DEFINE f == got[c].id
           t == {k \in DOMAIN db : k[1] = "FUNC" /\ k[2] = f}
                \cup {pkFuncPtr(got[c].owner, got[c].name), pkFuncList(got[c].owner, f)}
<1> USE DEF At, MoveTo, server, reg
<1>1. Moves(c) /\ UNCHANGED <<db, ghosts>>
  BY DEF DeleteQuery, Moves, Reg, StoreInv, TypeInv, Places, Over, ghosts
<1>2. /\ Reg(c)'.loc = "batch" /\ Reg(c)'.op = op[c] /\ Reg(c)'.got = got[c] /\ Reg(c)'.todo = t
      /\ got'[c] = got[c] /\ loc[c] = "query"
  BY RegPartsNext DEF DeleteQuery, StoreInv, TypeInv
<1>3. Deleting(Reg(c)) /\ RegOK(db, born, Reg(c))
  BY <1>2, RegParts DEF StoreInv, Deleting
<1>4. /\ Loaded(db, born, got[c]) /\ op[c] = "Delete"
      /\ Named(db, got[c].name) /\ Retired(db, got[c].name)
  BY <1>2, <1>3, RegParts DEF RegOK
<1>5. f \in Fns /\ got[c].owner = OwnerOf[f] /\ got[c].name = NameOf[f]
  BY <1>4 DEF Loaded, FnRow
<1>6. TodoOK(db, t)
  <2>1. ASSUME NEW k \in t
        PROVE  k[1] \in {"FUNC", "PTR", "LIST", "WS", "GRANT", "GRANTID", "PREV"}
    BY KeyFacts
  <2>2. ASSUME NEW k \in t, NEW g \in Fns,
               k \in {pkFunc(g), pkFuncPtr(OwnerOf[g], NameOf[g]), pkFuncList(OwnerOf[g], g)}
        PROVE  Retired(db, NameOf[g])
    <3>1. CASE k = pkFunc(g)
      BY <1>4, <1>5, <2>2, <3>1, KeyFacts
    <3>2. CASE k = pkFuncPtr(OwnerOf[g], NameOf[g])
      BY <1>4, <1>5, <2>2, <3>2, KeyFacts
    <3>3. CASE k = pkFuncList(OwnerOf[g], g)
      BY <1>4, <1>5, <2>2, <3>3, KeyFacts
    <3> QED BY <2>2, <3>1, <3>2, <3>3
  <2> QED BY <2>1, <2>2 DEF TodoOK
<1>7. pkFunc(f) \notin DOMAIN db \/ pkFunc(f) \in t
  BY KeyFacts
<1> HIDE DEF t
<1>8. RegOK(db, born, Reg(c)')
  BY <1>2, <1>4, <1>6, <1>7 DEF RegOK, Deleting
<1> QED BY <1>1, <1>2, <1>3, <1>8, ReadKeeps

\* ActivateVersion, UpdateUser and RenameHandle look before they write.
LEMMA LooksKeep ==
    ASSUME StoreInv, NEW c \in Calls,
           \/ \E f \in Fns, v \in Vers : ActivateCheck(c, f, v)
           \/ \E u \in Users, s \in Subjects : UpdateUserRead(c, u, s)
           \/ \E old, new \in Handles : RenameRead(c, old, new)
    PROVE  Right
<1> USE DEF Called, MoveTo, server, reg, Has
<1>1. ASSUME NEW f \in Fns, NEW v \in Vers, ActivateCheck(c, f, v) PROVE Right
  <2>1. Moves(c) /\ UNCHANGED <<db, ghosts>>
    BY <1>1 DEF ActivateCheck, Moves, Reg, StoreInv, TypeInv, Places, Over, ghosts
  <2>2. CASE Version(v) = f
    <3>1. Reg(c)'.loc = "activate" /\ Reg(c)'.arg = <<f, v>>
      BY <1>1, <2>2, RegPartsNext DEF ActivateCheck, StoreInv, TypeInv
    <3>2. IsOf(db, v, f)
      BY <1>1, <2>2 DEF ActivateCheck, Version, IsOf
    <3>3. RegOK(db, born, Reg(c)') /\ ~Deleting(Reg(c)')
      BY <3>1, <3>2 DEF RegOK, Deleting
    <3> QED BY <2>1, <3>3, ReadKeeps
  <2>3. CASE Version(v) # f
    <3>1. Reg(c)'.loc = "notFound"
      BY <1>1, <2>3, RegPartsNext DEF ActivateCheck, StoreInv, TypeInv
    <3> QED BY <2>1, <3>1, OverReg, ReadKeeps DEF Over, Deleting
  <2> QED BY <2>2, <2>3
<1>2. ASSUME NEW u \in Users, NEW s \in Subjects, UpdateUserRead(c, u, s) PROVE Right
  <2>1. Moves(c) /\ UNCHANGED <<db, ghosts>>
    BY <1>2 DEF UpdateUserRead, Moves, Reg, StoreInv, TypeInv, Places, Over, ghosts
  <2>2. Reg(c)'.loc = "user" /\ Reg(c)'.arg = Row(u, s, db[pkUser(u)].role)
    BY <1>2, RegPartsNext DEF UpdateUserRead, StoreInv, TypeInv
  <2>3. db[pkUser(u)].role \in {"admin", "member"}
    BY <1>2, TableHas DEF UpdateUserRead, StoreInv, TypeInv, UserRow
  <2>4. s # Nil
    BY NilAssumption
  <2>5. Row(u, s, db[pkUser(u)].role) \in UserRow /\ Row(u, s, db[pkUser(u)].role).subject # Nil
    BY <2>3, <2>4 DEF UserRow, Row
  <2>6. RegOK(db, born, Reg(c)') /\ ~Deleting(Reg(c)')
    BY <2>2, <2>5 DEF RegOK, Deleting
  <2> QED BY <2>1, <2>6, ReadKeeps
<1>3. ASSUME NEW old \in Handles, NEW new \in Handles, RenameRead(c, old, new) PROVE Right
  <2>1. Moves(c) /\ UNCHANGED <<db, ghosts>>
    BY <1>3 DEF RenameRead, Moves, Reg, StoreInv, TypeInv, Places, Over, ghosts
  <2>2. Reg(c)'.loc = "rename"
    BY <1>3, RegPartsNext DEF RenameRead, StoreInv, TypeInv
  <2>3. RegOK(db, born, Reg(c)') /\ ~Deleting(Reg(c)')
    BY <2>2 DEF RegOK, Deleting
  <2> QED BY <2>1, <2>3, ReadKeeps
<1> QED BY <1>1, <1>2, <1>3

\* A batch of a call that deletes no function.
LEMMA OtherBatch ==
    ASSUME NEW d, NEW b, NEW r, r.op # "Delete", r.loc = "batch",
           \A k \in r.todo : k[1] \in {"WS", "GRANT", "GRANTID", "PREV"}
    PROVE  RegOK(d, b, r) /\ ~Deleting(r)
<1>1. TodoOK(d, r.todo)
  BY KeyFacts DEF TodoOK
<1> QED BY <1>1 DEF RegOK, Deleting

\* The reads of grants, and the queries of what a workspace and a grant hold.
LEMMA GrantReads ==
    ASSUME StoreInv, NEW c \in Calls,
           \/ \E g \in Grants : DeleteGrant(c, g)
           \/ \E h \in Calls : RotateRead(c, h) \/ RevokeIfPrevious(c, h)
           \/ DeleteGrantPointer(c)
    PROVE  Right
<1> USE DEF Called, At, MoveTo, server, reg, Has
<1>1. Moves(c) /\ UNCHANGED <<db, ghosts>>
  <2>1. ASSUME NEW g \in Grants, DeleteGrant(c, g) PROVE Moves(c) /\ UNCHANGED <<db, ghosts>>
    BY <2>1 DEF DeleteGrant, Moves, Reg, StoreInv, TypeInv, Places, Over, ghosts
  <2>2. ASSUME NEW h \in Calls, RotateRead(c, h) PROVE Moves(c) /\ UNCHANGED <<db, ghosts>>
    BY <2>2 DEF RotateRead, Moves, Reg, StoreInv, TypeInv, Places, Over, ghosts
  <2>3. ASSUME NEW h \in Calls, RevokeIfPrevious(c, h) PROVE Moves(c) /\ UNCHANGED <<db, ghosts>>
    BY <2>3 DEF RevokeIfPrevious, Moves, Reg, StoreInv, TypeInv, Places, Over, ghosts
  <2>4. ASSUME DeleteGrantPointer(c) PROVE Moves(c) /\ UNCHANGED <<db, ghosts>>
    BY <2>4 DEF DeleteGrantPointer, Moves, Reg, StoreInv, TypeInv, Places, Over, ghosts
  <2> QED BY <2>1, <2>2, <2>3, <2>4
<1>2. Reg(c)'.op # "Delete"
  <2>1. ASSUME DeleteGrantPointer(c) PROVE Reg(c)'.op # "Delete"
    <3>1. Reg(c).loc = "pointer" /\ RegOK(db, born, Reg(c))
      BY <2>1, RegParts DEF DeleteGrantPointer, StoreInv
    <3>2. Reg(c).op # "Delete"
      BY <3>1 DEF RegOK
    <3> QED BY <2>1, <3>2, RegParts, RegPartsNext DEF DeleteGrantPointer
  <2>2. ASSUME NEW g \in Grants, DeleteGrant(c, g) PROVE Reg(c)'.op # "Delete"
    BY <2>2, RegPartsNext DEF DeleteGrant
  <2>3. ASSUME NEW h \in Calls, RevokeIfPrevious(c, h) PROVE Reg(c)'.op # "Delete"
    BY <2>3, RegPartsNext DEF RevokeIfPrevious
  <2>4. ASSUME NEW h \in Calls, RotateRead(c, h) PROVE Reg(c)'.op # "Delete"
    BY <2>4, RegPartsNext DEF RotateRead
  <2> QED BY <2>1, <2>2, <2>3, <2>4
<1>3. Reg(c)'.loc \in {"pointer", "prev", "unprev", "rotate"} \cup Over
  BY RegPartsNext DEF DeleteGrant, RotateRead, RevokeIfPrevious, DeleteGrantPointer, StoreInv, TypeInv,
       Over
<1>4. RegOK(db, born, Reg(c)') /\ ~Deleting(Reg(c)')
  BY <1>2, <1>3, OverReg DEF RegOK, Deleting, Over
<1> QED BY <1>1, <1>4, ReadKeeps

\* See GrantReads.
LEMMA BatchReads ==
    ASSUME StoreInv, NEW c \in Calls,
           (\E w \in Workspaces : DeleteWorkspace(c, w)) \/ DeleteGrantPrev(c)
    PROVE  Right
<1> USE DEF Called, At, MoveTo, server, reg, Has
<1>1. ASSUME NEW w \in Workspaces, DeleteWorkspace(c, w) PROVE Right
  <2>1. Moves(c) /\ UNCHANGED <<db, ghosts>>
    BY <1>1 DEF DeleteWorkspace, Moves, Reg, StoreInv, TypeInv, Places, Over, ghosts
  <2>2. Reg(c)'.loc \in {"ok", "batch"} /\ Reg(c)'.op = "DeleteWorkspace"
    BY <1>1, RegPartsNext DEF DeleteWorkspace, StoreInv, TypeInv
  <2>3. todo'[c] = {k \in DOMAIN db : k[1] = "WS" /\ k[2] = w}
    BY <1>1 DEF DeleteWorkspace, StoreInv, TypeInv
  <2>4. \A k \in Reg(c)'.todo : k[1] = "WS"
    BY <2>3, RegPartsNext
  <2>5. RegOK(db, born, Reg(c)') /\ ~Deleting(Reg(c)')
    BY <2>2, <2>4, OtherBatch, OverReg DEF Over, Deleting
  <2> QED BY <2>1, <2>5, ReadKeeps
<1>2. ASSUME DeleteGrantPrev(c) PROVE Right
  <2>1. Moves(c) /\ UNCHANGED <<db, ghosts>>
    BY <1>2 DEF DeleteGrantPrev, Moves, Reg, StoreInv, TypeInv, Places, Over, ghosts
  <2>2. op[c] # "Delete"
    BY <1>2, RegParts DEF DeleteGrantPrev, StoreInv, RegOK
  <2>3. /\ Reg(c)'.loc = "batch" /\ Reg(c)'.op # "Delete"
        /\ \A k \in Reg(c)'.todo : k[1] \in {"GRANT", "GRANTID", "PREV"}
    BY <1>2, <2>2, RegPartsNext, KeyFacts DEF DeleteGrantPrev, StoreInv, TypeInv
  <2>4. RegOK(db, born, Reg(c)') /\ ~Deleting(Reg(c)')
    BY <2>3, OtherBatch
  <2> QED BY <2>1, <2>4, ReadKeeps
<1> QED BY <1>1, <1>2

\* A statement that fails ends its call.
LEMMA FailKeeps ==
    ASSUME StoreInv, NEW c \in Calls, phase = "serving", StatementFails(c)
    PROVE  Right
<1>1. Moves(c) /\ UNCHANGED <<db, ghosts>>
  BY DEF StatementFails, MoveTo, server, reg, Moves, Reg, StoreInv, TypeInv, Places, Over, ghosts
<1>2. Reg(c)'.loc = "failed"
  BY RegPartsNext DEF StatementFails, MoveTo, StoreInv, TypeInv
<1>3. RegOK(db, born, Reg(c)') /\ ~Deleting(Reg(c)')
  BY <1>2, OverReg DEF Over, Deleting
<1> QED BY <1>1, <1>3, ReadKeeps

\* Keys of the invariant's table, before a statement.
LEMMA PlainHere ==
    ASSUME StoreInv
    PROVE  Plain(db, born, db)
BY PlainSelf DEF StoreInv, TypeInv

\* The writes of users, under the conditions that guard them.
LEMMA UserWrites ==
    ASSUME StoreInv, NEW c \in Calls, NEW u \in Users, NEW s \in Subjects,
           BootstrapFirstUser(c, u, s) \/ CreateUser(c, u, s)
    PROVE  Right
<1> USE DEF Called, MoveTo, server, reg, Has
<1>1. /\ Moves(c) /\ born' = born /\ UNCHANGED <<settled, extra, minted, won>>
      /\ loc'[c] \in Over
  BY DEF BootstrapFirstUser, CreateUser, Moves, Reg, StoreInv, TypeInv, Places, Over, ghosts
<1>2. /\ Row(u, s, "admin") \in UserRow /\ Row(u, s, "admin").subject # Nil
      /\ Row(u, s, "member") \in UserRow /\ Row(u, s, "member").subject # Nil
  BY NilAssumption DEF Row, UserRow
<1>3. CASE UNCHANGED db
  BY <1>1, <1>3, PlainHere, EndKeeps
<1>4. CASE BootstrapFirstUser(c, u, s) /\ Lock \notin DOMAIN db
  <2> DEFINE e1 == Put(db, Lock, Nil)
             e2 == Put(e1, pkUser(u), Row(u, s, "admin"))
             e3 == Put(e2, pkUserProviderSubject(s), u)
  <2>1. db' = e3
    BY <1>4 DEF BootstrapFirstUser
  <2>2. Plain(db, born, e1)
    BY PlainHere, PlainPut, PlainKeys, KeyFacts
  <2>3. Lock \in DOMAIN e1
    BY PutHas
  <2>4. Plain(db, born, e2) /\ Lock \in DOMAIN e2
    <3>1. Lock \in DOMAIN e2
      BY <2>3, PutHas
    <3>2. KeyOK(pkUser(u)) /\ ItemOK(pkUser(u), Row(u, s, "admin"))
      BY <1>2, ShapedKeys
    <3> HIDE DEF e1
    <3>3. Plain(db, born, e2)
      BY <2>2, <2>3, <3>2, PlainPut, KeyFacts
    <3> QED BY <3>1, <3>3
  <2>5. pkUserProviderSubject(s) \notin DOMAIN db
    BY <1>4, KeyFacts DEF StoreInv, LockOK
  <2>6. KeyOK(pkUserProviderSubject(s)) /\ ItemOK(pkUserProviderSubject(s), u)
    BY PlainKeys, KeyFacts
  <2> HIDE DEF e2
  <2>7. Plain(db, born, e3)
    BY <2>4, <2>5, <2>6, PlainPut, KeyFacts
  <2> QED BY <1>1, <2>1, <2>7, EndKeeps
<1>5. CASE /\ CreateUser(c, u, s) /\ Lock \in DOMAIN db
           /\ pkUserProviderSubject(s) \notin DOMAIN db /\ ~UNCHANGED db
  <2> DEFINE e1 == Put(db, pkUser(u), Row(u, s, "member"))
             e2 == Put(e1, pkUserProviderSubject(s), u)
  <2>1. db' = e2
    BY <1>5 DEF CreateUser
  <2>2. Plain(db, born, e1) /\ Lock \in DOMAIN e1
    <3>1. KeyOK(pkUser(u)) /\ ItemOK(pkUser(u), Row(u, s, "member"))
      BY <1>2, ShapedKeys
    <3> QED BY <1>5, <3>1, PlainHere, PlainPut, PutHas, KeyFacts
  <2>3. KeyOK(pkUserProviderSubject(s)) /\ ItemOK(pkUserProviderSubject(s), u)
    BY PlainKeys, KeyFacts
  <2> HIDE DEF e1
  <2>4. Plain(db, born, e2)
    BY <1>5, <2>2, <2>3, PlainPut, KeyFacts
  <2> QED BY <1>1, <2>1, <2>4, EndKeeps
<1> QED BY <1>3, <1>4, <1>5 DEF BootstrapFirstUser, CreateUser

\* The put of a user whose subject may have moved.
LEMMA UserPuts ==
    ASSUME StoreInv, NEW c \in Calls, UpdateUserPut(c)
    PROVE  Right
<1> DEFINE u == pkUser(arg[c].id)
           old == pkUserProviderSubject(got[c].subject)
           new == pkUserProviderSubject(arg[c].subject)
<1> USE DEF At, MoveTo, server, reg, Has
<1>1. /\ Moves(c) /\ born' = born /\ UNCHANGED <<settled, extra, minted, won>>
      /\ loc'[c] \in Over
  BY DEF UpdateUserPut, Moves, Reg, StoreInv, TypeInv, Places, Over, ghosts
<1>2. arg[c] \in UserRow /\ arg[c].subject # Nil
  BY RegParts DEF UpdateUserPut, StoreInv, RegOK
<1>3. KeyOK(u) /\ ItemOK(u, arg[c])
  BY <1>2, ShapedKeys DEF UserRow
<1>4. CASE UNCHANGED db
  BY <1>1, <1>4, PlainHere, EndKeeps
<1>5. CASE u \in DOMAIN db /\ db' = Put(db, u, arg[c])
  <2>1. Lock \in DOMAIN db
    BY <1>5, KeyFacts DEF StoreInv, LockOK
  <2>2. Plain(db, born, db')
    BY <1>3, <1>5, <2>1, PlainHere, PlainPut, KeyFacts
  <2> QED BY <1>1, <2>2, EndKeeps
<1>6. CASE /\ u \in DOMAIN db /\ new \notin DOMAIN db
           /\ db' = Put(Put(Without(db, {old}), u, arg[c]), new, arg[c].id)
  <2> DEFINE e1 == Without(db, {old})
             e2 == Put(e1, u, arg[c])
  <2>1. Lock \in DOMAIN db
    BY <1>6, KeyFacts DEF StoreInv, LockOK
  <2>2. Plain(db, born, e1) /\ Lock \in DOMAIN e1
    <3>1. Plain(db, born, e1)
      BY PlainHere, PlainWithout, KeyFacts
    <3> QED BY <2>1, <3>1, WithoutHas, KeyFacts
  <2>3. Plain(db, born, e2) /\ Lock \in DOMAIN e2
    <3> HIDE DEF e1
    <3>1. Plain(db, born, e2)
      BY <1>3, <2>2, PlainPut, KeyFacts
    <3> QED BY <2>2, <3>1, PutHas
  <2>4. KeyOK(new) /\ ItemOK(new, arg[c].id)
    BY PlainKeys, KeyFacts
  <2> HIDE DEF e2
  <2>5. Plain(db, born, Put(e2, new, arg[c].id))
    BY <1>6, <2>3, <2>4, PlainPut, KeyFacts
  <2> QED BY <1>1, <1>6, <2>5, EndKeeps DEF e2
<1> QED BY <1>4, <1>5, <1>6 DEF UpdateUserPut

\* The writes of public ids.
LEMMA HandleWrites ==
    ASSUME StoreInv, NEW c \in Calls,
           (\E h \in Handles, u \in Users : CreateHandle(c, h, u)) \/ Rename(c)
    PROVE  Right
<1> USE DEF Called, At, MoveTo, server, reg, Has
<1>1. /\ Moves(c) /\ born' = born /\ UNCHANGED <<settled, extra, minted, won>>
      /\ loc'[c] \in Over
  BY DEF CreateHandle, Rename, Moves, Reg, StoreInv, TypeInv, Places, Over, ghosts
<1>2. CASE UNCHANGED db
  BY <1>1, <1>2, PlainHere, EndKeeps
<1>3. \A h, x : KeyOK(pkHandle(h)) /\ ItemOK(pkHandle(h), x)
  BY PlainKeys, KeyFacts
<1>4. ASSUME NEW h \in Handles, NEW u \in Users, pkHandle(h) \notin DOMAIN db,
             db' = Put(db, pkHandle(h), u)
      PROVE  Right
  <2>1. Plain(db, born, db')
    BY <1>3, <1>4, PlainHere, PlainPut, KeyFacts
  <2> QED BY <1>1, <2>1, EndKeeps
<1>5. ASSUME NEW old, NEW new, pkHandle(new) \notin DOMAIN db,
             db' = Put(Without(db, {pkHandle(old)}), pkHandle(new), got[c])
      PROVE  Right
  <2> DEFINE e == Without(db, {pkHandle(old)})
  <2>1. Plain(db, born, e)
    BY PlainHere, PlainWithout, KeyFacts
  <2> HIDE DEF e
  <2>2. Plain(db, born, Put(e, pkHandle(new), got[c]))
    BY <1>3, <1>5, <2>1, PlainPut, KeyFacts
  <2> QED BY <1>1, <1>5, <2>2, EndKeeps DEF e
<1> QED BY <1>2, <1>4, <1>5 DEF CreateHandle, Rename

\* The writes of workspaces and members.
LEMMA WorkspaceWrites ==
    ASSUME StoreInv, NEW c \in Calls, NEW w \in Workspaces,
           \/ \E u \in Users : CreateWorkspace(c, w, u) \/ AddMember(c, w, u)
           \/ UpdateWorkspace(c, w)
    PROVE  Right
<1> USE DEF Called, MoveTo, server, reg, Has
<1>1. /\ Moves(c) /\ born \subseteq born' /\ UNCHANGED <<settled, extra, minted, won>>
      /\ loc'[c] \in Over
  BY DEF CreateWorkspace, AddMember, UpdateWorkspace, Moves, Reg, StoreInv, TypeInv, Places, Over,
         ghosts
<1>2. CASE UNCHANGED db
  BY <1>1, <1>2, PlainHere, EndKeeps
<1>3. /\ \A x : KeyOK(pkWorkspace(w)) /\ ItemOK(pkWorkspace(w), x)
      /\ \A u, x : KeyOK(skMember(w, u)) /\ ItemOK(skMember(w, u), x)
  BY PlainKeys, KeyFacts
<1>4. ASSUME NEW u \in Users, CreateWorkspace(c, w, u) PROVE Right
  <2> DEFINE e == Put(db, pkWorkspace(w), 1)
  <2>1. Plain(db, born, e)
    BY <1>3, <1>4, PlainHere, PlainPut, KeyFacts DEF CreateWorkspace
  <2> HIDE DEF e
  <2>2. Plain(db, born, Put(e, skMember(w, u), "admin"))
    BY <1>3, <2>1, PlainPut, KeyFacts
  <2>3. Plain(db, born, db')
    BY <1>4, <2>2 DEF CreateWorkspace, e
  <2> QED BY <1>1, <2>3, EndKeeps
<1>5. ASSUME NEW u \in Users, AddMember(c, w, u) PROVE Right
  <2>1. Plain(db, born, Put(db, skMember(w, u), "member"))
    BY <1>3, PlainHere, PlainPut, KeyFacts
  <2>2. Plain(db, born, db')
    BY <1>5, <2>1 DEF AddMember
  <2> QED BY <1>1, <2>2, EndKeeps
<1>6. CASE pkWorkspace(w) \in DOMAIN db /\ db' = Put(db, pkWorkspace(w), 2)
  <2>1. Plain(db, born, db')
    BY <1>3, <1>6, PlainHere, PlainPut, KeyFacts
  <2> QED BY <1>1, <2>1, EndKeeps
<1> QED BY <1>2, <1>4, <1>5, <1>6 DEF UpdateWorkspace

\* The writes of environments, and of the pointer a revocation came by.
LEMMA SingleWrites ==
    ASSUME StoreInv, NEW c \in Calls, (\E f \in Fns : SetEnv(c, f)) \/ RevokeUnlink(c)
    PROVE  Right
<1> USE DEF Called, At, MoveTo, server, reg
<1>1. /\ Moves(c) /\ born' = born /\ UNCHANGED <<settled, extra, minted, won>>
      /\ loc'[c] \in Over
  BY DEF SetEnv, RevokeUnlink, Moves, Reg, StoreInv, TypeInv, Places, Over, ghosts
<1>2. ASSUME NEW f \in Fns, SetEnv(c, f) PROVE Right
  <2>1. skEnv(f)[1] = "FUNC" /\ Len(skEnv(f)) # 2
    BY KeyFacts
  <2>2. KeyOK(skEnv(f)) /\ ItemOK(skEnv(f), c)
    BY <2>1, PlainKeys
  <2>3. Plain(db, born, Put(db, skEnv(f), c))
    BY <2>1, <2>2, PlainHere, PlainPut
  <2>4. Plain(db, born, db')
    BY <1>2, <2>3 DEF SetEnv
  <2> QED BY <1>1, <2>4, EndKeeps
<1>3. ASSUME RevokeUnlink(c) PROVE Right
  <2>1. Plain(db, born, Without(db, {pkOAuthGrantPrev(arg[c][2])}))
    BY PlainHere, PlainWithout, KeyFacts
  <2>2. Plain(db, born, db')
    BY <1>3, <2>1 DEF RevokeUnlink
  <2> QED BY <1>1, <2>2, EndKeeps
<1> QED BY <1>2, <1>3

-----------------------------------------------------------------------------
(***************************************************************************)
(* The statements on functions.                                            *)
(***************************************************************************)

\* A row may be replaced by another of the same function that runs a version of
\* its own.
LEMMA RowPut ==
    ASSUME NEW d, NEW b, TableOK(d), LockOK(d), FnsOK(d),
           NEW f \in Fns, pkFunc(f) \in DOMAIN d, NEW x \in FnRow(f),
           x.active # Nil => IsOf(d, x.active, f)
    PROVE  LET e == Put(d, pkFunc(f), x) IN
           /\ TableOK(e) /\ LockOK(e) /\ FnsOK(e) /\ Lasting(d, b, e)
           /\ CountKept(d, e) /\ IdKept(d, e)
           /\ \A g : pkFunc(g) \in DOMAIN e <=> pkFunc(g) \in DOMAIN d
           /\ e[pkFunc(f)] = x
           /\ \A g : g # f /\ pkFunc(g) \in DOMAIN d => e[pkFunc(g)] = d[pkFunc(g)]
           /\ \A n : Named(e, n) <=> Named(d, n)
<1> DEFINE e == Put(d, pkFunc(f), x)
<1>1. TableOK(e) /\ LockOK(e) /\ Lasting(d, b, e)
  <2>1. TableOK(e)
    BY ShapedKeys, TablePut
  <2>2. LockOK(e)
    BY LockPut, KeyFacts
  <2>3. Lasting(d, b, e)
    BY LastingSelf, LastingPut, KeyFacts
  <2> QED BY <2>1, <2>2, <2>3
<1>2. \A j : j # pkFunc(f) => Kept(d, e, j)
  BY PutKept DEF Kept
<1>3. pkFunc(f) \in DOMAIN e /\ e[pkFunc(f)] = x
  BY DEF Put
<1> HIDE DEF e
<1>4. /\ \A n : Kept(d, e, pkFuncName(n))
      /\ \A o, n : Kept(d, e, pkFuncPtr(o, n))
      /\ \A o, g : Kept(d, e, pkFuncList(o, g))
      /\ \A v : Kept(d, e, pkVersion(v))
      /\ \A g : g # f => Kept(d, e, pkFunc(g))
      /\ CountKept(d, e) /\ IdKept(d, e)
  BY <1>2, KeyFacts DEF CountKept, IdKept
<1>5. /\ \A g : pkFunc(g) \in DOMAIN e <=> pkFunc(g) \in DOMAIN d
      /\ \A g : g # f /\ pkFunc(g) \in DOMAIN d => e[pkFunc(g)] = d[pkFunc(g)]
  BY <1>3, <1>4 DEF Kept
<1>6. /\ \A n : Named(e, n) <=> Named(d, n)
      /\ \A n : Named(d, n) => e[pkFuncName(n)] = d[pkFuncName(n)]
      /\ \A n : Retired(e, n) <=> Retired(d, n)
      /\ \A v, g : IsOf(e, v, g) <=> IsOf(d, v, g)
      /\ \A g : Listed(e, g) <=> Listed(d, g)
  BY <1>4 DEF Kept, Named, Retired, IsOf, Listed
<1>7. FnsOK(e)
  BY <1>3, <1>5, <1>6 DEF FnsOK
<1> QED BY <1>1, <1>3, <1>4, <1>5, <1>6, <1>7 DEF e

\* A call that ends by replacing a row.
LEMMA RowPutKeeps ==
    ASSUME StoreInv, NEW c \in Calls, Moves(c), UNCHANGED ghosts, loc'[c] \in Over,
           NEW f \in Fns, pkFunc(f) \in DOMAIN db, NEW x \in FnRow(f),
           x.active # Nil => IsOf(db, x.active, f),
           x.creator = db[pkFunc(f)].creator,
           db' = Put(db, pkFunc(f), x)
    PROVE  Right
<1>1. /\ TableOK(db') /\ LockOK(db') /\ FnsOK(db') /\ Lasting(db, born, db')
      /\ CountKept(db, db') /\ IdKept(db, db')
      /\ \A g : pkFunc(g) \in DOMAIN db' <=> pkFunc(g) \in DOMAIN db
      /\ db'[pkFunc(f)] = x
      /\ \A g : g # f /\ pkFunc(g) \in DOMAIN db => db'[pkFunc(g)] = db[pkFunc(g)]
      /\ \A n : Named(db', n) <=> Named(db, n)
  <2>1. TableOK(db) /\ LockOK(db) /\ FnsOK(db)
    BY DEF StoreInv, TypeInv
  <2>2. db' = Put(db, pkFunc(f), x)
    OBVIOUS
  <2> QED BY ONLY <2>1, <2>2, RowPut, f \in Fns, pkFunc(f) \in DOMAIN db, x \in FnRow(f),
             x.active # Nil => IsOf(db, x.active, f)
<1>2. UNCHANGED <<crashes, born, settled, extra, minted, won>>
  BY DEF ghosts
<1>3. SameCreators(db, db')
  BY <1>1 DEF SameCreators
<1>4. RowsShrink(db, db')
  <2>1. db[pkFunc(f)] \in FnRow(f)
    BY TableHas DEF StoreInv, TypeInv
  <2>2. functionCountScope(x) = functionCountScope(db[pkFunc(f)])
    BY <2>1 DEF functionCountScope, FnRow
  <2> QED BY <1>1, <2>2 DEF RowsShrink
<1>5. ~Deleting(Reg(c))' /\ RegOK(db', born', Reg(c)')
  BY OverReg, RegPartsNext DEF Deleting, Over
<1>6. CountInv'
  <2>1. \A g \in Fns : \A s : OwedFn(g, s)' => OwedFn(g, s)
    BY <1>2, <1>4, <1>5, OwedFrame
  <2> QED BY <1>1, <1>2, <2>1, CountsFrame DEF StoreInv, Moves
<1>7. GivenOut(db', born', settled') /\ SecretsOK(db', minted', won')
  BY <1>1, <1>2, SecretsFrame DEF StoreInv, GivenOut
<1>8. \A g \in Fns : pkFunc(g) \in DOMAIN db' => Named(db', NameOf[g])
  BY <1>1 DEF StoreInv, PhaseInv, Moves
<1>9. UNCHANGED Secrets!vars
  BY <1>1, <1>2, SecretStutter DEF StoreInv, TypeInv
<1> QED BY <1>1, <1>2, <1>3, <1>5, <1>6, <1>7, <1>8, <1>9, MintFrame, CallKeeps DEF StoreInv, TypeInv

\* Update and ActivateVersion: what is written was read before, and is still
\* true of the function if there is one.
LEMMA RowWrites ==
    ASSUME StoreInv, NEW c \in Calls, UpdatePut(c) \/ Activate(c)
    PROVE  Right
<1> USE DEF At, MoveTo, server, reg, Has
<1>1. /\ Moves(c) /\ UNCHANGED ghosts /\ loc'[c] \in Over
  BY DEF UpdatePut, Activate, Moves, Reg, StoreInv, TypeInv, Places, Over, ghosts
<1>2. CASE UNCHANGED db
  BY <1>1, <1>2, PlainHere, EndKeeps DEF ghosts
<1>3. CASE UpdatePut(c) /\ ~UNCHANGED db
  <2> DEFINE f == got[c].id
  <2>1. Reg(c).loc = "put" /\ Reg(c).got = got[c] /\ RegOK(db, born, Reg(c))
    BY <1>3, RegParts DEF UpdatePut, StoreInv
  <2>2. Loaded(db, born, got[c])
    BY <2>1 DEF RegOK
  <2>3. pkFunc(f) \in DOMAIN db /\ db' = Put(db, pkFunc(f), got[c])
    BY <1>3 DEF UpdatePut
  <2>4. /\ f \in Fns /\ got[c] \in FnRow(f) /\ (got[c].active # Nil => IsOf(db, got[c].active, f))
        /\ got[c].creator = db[pkFunc(f)].creator
    BY <2>2, <2>3 DEF Loaded
  <2> QED BY <1>1, <2>3, <2>4, RowPutKeeps
<1>4. CASE Activate(c) /\ ~UNCHANGED db
  <2>1. Reg(c).loc = "activate" /\ Reg(c).arg = arg[c] /\ RegOK(db, born, Reg(c))
    BY <1>4, RegParts DEF Activate, StoreInv
  <2>2. PICK f \in Fns, v \in Vers : arg[c] = <<f, v>> /\ IsOf(db, v, f)
    BY <2>1 DEF RegOK
  <2> DEFINE x == [db[pkFunc(f)] EXCEPT !.active = v]
  <2>3. pkFunc(f) \in DOMAIN db /\ db' = [db EXCEPT ![pkFunc(f)].active = v]
    BY <1>4, <2>2 DEF Activate
  <2>4. db' = Put(db, pkFunc(f), x)
    BY <2>3, UpdateIsPut
  <2>5. db[pkFunc(f)] \in FnRow(f)
    BY <2>3, TableHas DEF StoreInv, TypeInv
  <2>6. x \in FnRow(f) /\ x.active = v /\ x.creator = db[pkFunc(f)].creator
    BY <2>5 DEF FnRow
  <2> HIDE DEF x
  <2> QED BY <1>1, <2>2, <2>3, <2>4, <2>6, RowPutKeeps
<1> QED BY <1>2, <1>3, <1>4

\* A call that ends no row's quota, adds no row, and leaves the counters alone.
LEMMA ShrinkKeeps ==
    ASSUME StoreInv, NEW c \in Calls, Moves(c), UNCHANGED ghosts,
           TableOK(db'), LockOK(db'), Lasting(db, born, db'), FnsOK(db'), CountKept(db, db'),
           \A f \in Fns : pkFunc(f) \in DOMAIN db' =>
               pkFunc(f) \in DOMAIN db /\ db'[pkFunc(f)] = db[pkFunc(f)],
           SecretsOK(db', minted, won), Secrets!Next \/ UNCHANGED Secrets!vars,
           RegOK(db', born, Reg(c)'),
           Deleting(Reg(c))' => Deleting(Reg(c)) /\ got'[c] = got[c]
    PROVE  Right
<1>1. UNCHANGED <<crashes, born, settled, extra, minted, won>>
  BY DEF ghosts
<1>2. SameCreators(db, db') /\ RowsShrink(db, db')
  BY DEF SameCreators, RowsShrink
<1>3. GivenOut(db', born', settled')
  BY <1>1 DEF StoreInv, GivenOut
<1>4. \A f \in Fns : pkFunc(f) \in DOMAIN db' => Named(db', NameOf[f])
  BY KeyFacts DEF StoreInv, PhaseInv, Moves, Named, Lasting
<1>5. CountInv'
  <2>1. \A f \in Fns : \A s : OwedFn(f, s)' => OwedFn(f, s)
    BY <1>1, <1>2, OwedFrame
  <2> QED BY <1>1, <2>1, CountsFrame DEF StoreInv, Moves
<1>6. RegOK(db', born', Reg(c)') /\ SecretsOK(db', minted', won')
  BY <1>1
<1> QED BY <1>1, <1>2, <1>3, <1>4, <1>5, <1>6, MintFrame, CallKeeps DEF StoreInv, TypeInv

\* A version is added where there is none.
LEMMA VersionWrites ==
    ASSUME StoreInv, NEW c \in Calls, NEW f \in Fns, NEW v \in Vers, CreateVersion(c, f, v)
    PROVE  Right
<1> DEFINE e == Put(db, pkVersion(v), f)
           e2 == Put(e, skVersion(f, v), v)
<1> USE DEF Called, MoveTo, server, reg, Has
<1>1. Moves(c) /\ UNCHANGED ghosts /\ loc'[c] \in Over /\ pkVersion(v) \notin DOMAIN db
  BY DEF CreateVersion, Moves, Reg, StoreInv, TypeInv, Places, Over, ghosts
<1>2. db' = e2
  BY DEF CreateVersion
<1>3. TableOK(e) /\ LockOK(e) /\ Lasting(db, born, e)
  <2>1. KeyOK(pkVersion(v)) /\ ItemOK(pkVersion(v), f)
    BY PlainKeys, KeyFacts
  <2>2. TableOK(e) /\ LockOK(e)
    BY <2>1, TablePut, LockPut, KeyFacts DEF StoreInv, TypeInv
  <2>3. Lasting(db, born, e)
    BY <1>1, LastingSelf, LastingPut, KeyFacts
  <2> QED BY <2>2, <2>3
<1>4. TableOK(e2) /\ LockOK(e2) /\ Lasting(db, born, e2)
  <2>1. skVersion(f, v)[1] = "FUNC" /\ Len(skVersion(f, v)) # 2
    BY KeyFacts
  <2>2. KeyOK(skVersion(f, v)) /\ ItemOK(skVersion(f, v), v)
    BY <2>1, PlainKeys
  <2> HIDE DEF e
  <2>3. TableOK(e2) /\ LockOK(e2)
    BY <1>3, <2>1, <2>2, TablePut, LockPut
  <2>4. Lasting(db, born, e2)
    BY <1>3, <2>1, LastingPut
  <2> QED BY <2>3, <2>4
<1>5. ASSUME NEW k, k # pkVersion(v), k # skVersion(f, v) PROVE Kept(db, e2, k)
  <2>1. Kept(db, e, k)
    BY <1>5, PutKept DEF Kept
  <2> HIDE DEF e
  <2> QED BY <1>5, <2>1, PutKept
<1> HIDE DEF e2
<1>6. /\ \A n : Kept(db, e2, pkFuncName(n))
      /\ \A o, n : Kept(db, e2, pkFuncPtr(o, n))
      /\ \A o, g : Kept(db, e2, pkFuncList(o, g))
      /\ \A g : Kept(db, e2, pkFunc(g))
      /\ CountKept(db, e2) /\ IdKept(db, e2)
  BY <1>5, KeyFacts DEF CountKept, IdKept
<1>7. /\ \A n : Named(e2, n) <=> Named(db, n)
      /\ \A n : Named(db, n) => e2[pkFuncName(n)] = db[pkFuncName(n)]
      /\ \A n : Retired(e2, n) <=> Retired(db, n)
      /\ \A g : Listed(e2, g) <=> Listed(db, g)
  BY <1>6 DEF Kept, Named, Retired, Listed
<1>8. \A x, g : IsOf(db, x, g) => IsOf(e2, x, g)
  BY <1>4, KeyFacts DEF Lasting, IsOf
<1>9. /\ \A g : pkFunc(g) \in DOMAIN e2 <=> pkFunc(g) \in DOMAIN db
      /\ \A g : pkFunc(g) \in DOMAIN db => e2[pkFunc(g)] = db[pkFunc(g)]
  BY <1>6 DEF Kept
<1>10. FnsOK(e2)
  BY <1>7, <1>8, <1>9 DEF FnsOK, StoreInv
<1>11. SecretsOK(e2, minted, won)
  BY <1>6, SecretsFrame DEF StoreInv
<1>12. UNCHANGED Secrets!vars
  BY <1>1, <1>2, <1>4, <1>6, SecretStutter DEF StoreInv, TypeInv, ghosts
<1>13. RegOK(db', born, Reg(c)') /\ ~Deleting(Reg(c))'
  BY <1>1, OverReg, RegPartsNext DEF Deleting, Over
<1> QED BY <1>1, <1>2, <1>4, <1>6, <1>9, <1>10, <1>11, <1>12, <1>13, ShrinkKeeps

\* A deletion retires the name before anything else.
LEMMA TombstoneWrites ==
    ASSUME StoreInv, NEW c \in Calls, DeleteTombstone(c)
    PROVE  Right
<1> DEFINE n == got[c].name
           k == pkFuncName(n)
           x == [db[k] EXCEPT !.state = "tombstoned"]
           e == Put(db, k, x)
<1> USE DEF At, MoveTo, server, reg, Has
<1>1. Moves(c) /\ UNCHANGED ghosts /\ got'[c] = got[c] /\ op'[c] = op[c]
  BY DEF DeleteTombstone, Moves, Reg, StoreInv, TypeInv, Places, Over, ghosts
<1>2. Reg(c).loc = "tombstone" /\ Reg(c).got = got[c] /\ Reg(c).op = op[c]
  BY RegParts DEF DeleteTombstone
<1>3. Deleting(Reg(c)) /\ RegOK(db, born, Reg(c))
  BY <1>2 DEF StoreInv, Deleting
<1>4. Loaded(db, born, got[c]) /\ Named(db, n) /\ op[c] = "Delete"
  BY <1>2, <1>3 DEF RegOK
<1>5. db' = e
  BY <1>4, UpdateIsPut DEF DeleteTombstone, Named
<1>6. n \in Names /\ db[k] \in NameClaim
  BY <1>4, TableHas DEF StoreInv, TypeInv, Named
<1>7. /\ x \in NameClaim /\ x.fn = db[k].fn /\ x.state = "tombstoned"
      /\ (db[k].state = "tombstoned" => x = db[k])
  BY <1>6 DEF NameClaim
<1> HIDE DEF x
<1>8. TableOK(e) /\ LockOK(e)
  BY <1>6, <1>7, ShapedKeys, TablePut, LockPut, KeyFacts DEF StoreInv, TypeInv
<1>9. Lasting(db, born, e)
  BY <1>7, LastingSelf, LastingPut, KeyFacts
<1>10. \A j : j # k => Kept(db, e, j)
  BY PutKept DEF Kept
<1>11. Named(e, n) /\ e[k] = x
  BY DEF Named, Put
<1> HIDE DEF e
<1>12. /\ \A m : m # n => Kept(db, e, pkFuncName(m))
       /\ \A o, m : Kept(db, e, pkFuncPtr(o, m))
       /\ \A o, g : Kept(db, e, pkFuncList(o, g))
       /\ \A g : Kept(db, e, pkFunc(g))
       /\ \A v : Kept(db, e, pkVersion(v))
       /\ CountKept(db, e) /\ IdKept(db, e)
  BY <1>10, KeyFacts DEF CountKept, IdKept
<1>13. /\ \A m : m # n => Named(e, m) <=> Named(db, m)
       /\ \A m : m # n /\ Named(db, m) => e[pkFuncName(m)] = db[pkFuncName(m)]
       /\ \A m : Retired(db, m) => Retired(e, m)
       /\ \A g : Listed(e, g) <=> Listed(db, g)
       /\ \A v, g : IsOf(e, v, g) <=> IsOf(db, v, g)
       /\ Retired(e, n)
  BY <1>7, <1>11, <1>12 DEF Kept, Named, Retired, Listed, IsOf
<1>14. /\ \A g : pkFunc(g) \in DOMAIN e <=> pkFunc(g) \in DOMAIN db
       /\ \A g : pkFunc(g) \in DOMAIN db => e[pkFunc(g)] = db[pkFunc(g)]
  BY <1>12 DEF Kept
<1>15. FnsOK(e)
  <2>1. ASSUME NEW f \in Fns, pkFunc(f) \in DOMAIN e
        PROVE  /\ Retired(e, NameOf[f]) \/ Listed(e, f)
               /\ e[pkFunc(f)].active # Nil => IsOf(e, e[pkFunc(f)].active, f)
    BY <1>13, <1>14, <2>1 DEF FnsOK, StoreInv
  <2>2. ASSUME NEW m \in Names, Named(e, m), ~Retired(e, m)
        PROVE  \E f \in Fns : /\ e[pkFuncName(m)] = Claim(f)
                              /\ NameOf[f] = m
                              /\ pkFunc(f) \in DOMAIN e
    <3>1. m # n /\ Named(db, m) /\ ~Retired(db, m) /\ e[pkFuncName(m)] = db[pkFuncName(m)]
      BY <1>13, <2>2
    <3> QED BY <1>14, <3>1 DEF FnsOK, StoreInv
  <2> QED BY <2>1, <2>2 DEF FnsOK
<1>16. SecretsOK(e, minted, won)
  BY <1>12, SecretsFrame DEF StoreInv
<1>17. UNCHANGED Secrets!vars
  BY <1>1, <1>5, <1>8, <1>12, SecretStutter DEF StoreInv, TypeInv, ghosts
<1>18. Loaded(e, born, got[c])
  BY <1>4, <1>13, <1>14 DEF Loaded
<1>19. Reg(c)'.loc = "query" /\ Reg(c)'.op = "Delete" /\ Reg(c)'.got = got[c]
  BY <1>1, <1>4, RegPartsNext DEF DeleteTombstone, StoreInv, TypeInv
<1>20. RegOK(db', born, Reg(c)')
  BY <1>5, <1>11, <1>13, <1>18, <1>19 DEF RegOK, Deleting
<1> QED BY <1>1, <1>3, <1>5, <1>8, <1>9, <1>12, <1>14, <1>15, <1>16, <1>17, <1>20, ShrinkKeeps

\* The pointers of ids that a statement leaves: fewer secrets are in force.
LEMMA SecretsLost ==
    ASSUME NEW d, NEW e, NEW m, NEW w, SecretsOK(d, m, w),
           \A g \in Grants : pkOAuthGrantID(g) \in DOMAIN e =>
               /\ pkOAuthGrantID(g) \in DOMAIN d
               /\ e[pkOAuthGrantID(g)] = d[pkOAuthGrantID(g)]
    PROVE  SecretsOK(e, m, w)
BY DEF SecretsOK

\* See SecretsLost: that is how one-time codes are lost.
LEMMA SecretsLose ==
    ASSUME TableOK(db), TableOK(db'), SecretsOK(db, minted, won), UNCHANGED <<minted, won>>,
           \A g \in Grants : pkOAuthGrantID(g) \in DOMAIN db' =>
               /\ pkOAuthGrantID(g) \in DOMAIN db
               /\ db'[pkOAuthGrantID(g)] = db[pkOAuthGrantID(g)]
    PROVE  Secrets!Next
<1>1. InForce = {db[pkOAuthGrantID(g)] : g \in {h \in Grants : pkOAuthGrantID(h) \in DOMAIN db}}
  BY InForceKeys
<1>2. InForce' = {db'[pkOAuthGrantID(g)] : g \in {h \in Grants : pkOAuthGrantID(h) \in DOMAIN db'}}
  BY KeyFacts DEF InForce, RowsOf, TableOK, KeyOK
<1>3. InForce' \subseteq InForce /\ InForce \subseteq minted
  BY <1>1, <1>2 DEF SecretsOK
<1>4. (minted \ InForce)' = (minted \ InForce) \cup (InForce \ InForce')
  BY <1>3
<1>5. Secrets!Lose
  BY <1>3, <1>4 DEF Secrets!Lose, InForce
<1> QED BY <1>5 DEF Secrets!Next

\* A batch deletes one item, and is done with the last one.
LEMMA BatchWrites ==
    ASSUME StoreInv, NEW c \in Calls, BatchDelete(c)
    PROVE  Right
<1> USE DEF At, MoveTo, server, reg
<1>1. PICK k \in todo[c] :
        /\ db' = Without(db, {k})
        /\ todo' = [todo EXCEPT ![c] = @ \ {k}]
        /\ MoveTo(c, IF todo[c] # {k} THEN "batch"
                   ELSE IF op[c] = "Delete" THEN "count"
                   ELSE IF op[c] = "RevokeIfPrevious" THEN "unprev" ELSE "ok")
  BY DEF BatchDelete
<1> DEFINE e == Without(db, {k})
<1>2. Moves(c) /\ UNCHANGED ghosts /\ got'[c] = got[c]
  BY DEF BatchDelete, Moves, Reg, StoreInv, TypeInv, Places, Over, ghosts
<1>3. /\ Reg(c).loc = "batch" /\ Reg(c).op = op[c] /\ Reg(c).got = got[c]
      /\ Reg(c).todo = todo[c] /\ RegOK(db, born, Reg(c))
  BY RegParts DEF BatchDelete, StoreInv
<1>4. TodoOK(db, todo[c])
  BY <1>3 DEF RegOK
<1>5. k[1] \in {"FUNC", "PTR", "LIST", "WS", "GRANT", "GRANTID", "PREV"}
  BY <1>4 DEF TodoOK
<1>6. TableOK(e) /\ LockOK(e) /\ Lasting(db, born, e)
  <2>1. TableOK(e)
    BY TableWithout DEF StoreInv, TypeInv
  <2>2. LockOK(e)
    BY <1>5, LockWithout DEF StoreInv
  <2>3. Lasting(db, born, e)
    BY <1>5, LastingSelf, LastingWithout
  <2> QED BY <2>1, <2>2, <2>3
<1>7. \A j : j # k => Kept(db, e, j)
  BY DEF Kept, Without
<1>8. k \notin DOMAIN e /\ \A j \in DOMAIN e : j \in DOMAIN db /\ e[j] = db[j]
  BY DEF Without
<1> HIDE DEF e
<1>9. /\ \A n : Kept(db, e, pkFuncName(n))
      /\ \A v : Kept(db, e, pkVersion(v))
      /\ CountKept(db, e)
  BY <1>5, <1>7, KeyFacts DEF CountKept
<1>10. /\ \A n : Named(e, n) <=> Named(db, n)
       /\ \A n : Named(db, n) => e[pkFuncName(n)] = db[pkFuncName(n)]
       /\ \A n : Retired(e, n) <=> Retired(db, n)
       /\ \A v, g : IsOf(e, v, g) <=> IsOf(db, v, g)
  BY <1>9 DEF Kept, Named, Retired, IsOf
<1>11. FnsOK(e)
  <2>1. ASSUME NEW f \in Fns, pkFunc(f) \in DOMAIN e
        PROVE  Retired(e, NameOf[f]) \/ Listed(e, f)
    <3>1. CASE k \in {pkFuncPtr(OwnerOf[f], NameOf[f]), pkFuncList(OwnerOf[f], f)}
      BY <1>4, <1>10, <3>1 DEF TodoOK
    <3>2. CASE k \notin {pkFuncPtr(OwnerOf[f], NameOf[f]), pkFuncList(OwnerOf[f], f)}
      <4>1. /\ Kept(db, e, pkFuncPtr(OwnerOf[f], NameOf[f]))
            /\ Kept(db, e, pkFuncList(OwnerOf[f], f))
        BY <1>7, <3>2
      <4>2. Listed(e, f) <=> Listed(db, f)
        BY <4>1 DEF Kept, Listed
      <4> QED BY <1>8, <1>10, <2>1, <4>2 DEF FnsOK, StoreInv
    <3> QED BY <3>1, <3>2
  <2>2. ASSUME NEW f \in Fns, pkFunc(f) \in DOMAIN e, e[pkFunc(f)].active # Nil
        PROVE  IsOf(e, e[pkFunc(f)].active, f)
    BY <1>8, <1>10, <2>2 DEF FnsOK, StoreInv
  <2>3. ASSUME NEW n \in Names, Named(e, n), ~Retired(e, n)
        PROVE  \E f \in Fns : /\ e[pkFuncName(n)] = Claim(f)
                              /\ NameOf[f] = n
                              /\ pkFunc(f) \in DOMAIN e
    <3>1. Named(db, n) /\ ~Retired(db, n) /\ e[pkFuncName(n)] = db[pkFuncName(n)]
      BY <1>10, <2>3
    <3>2. PICK f \in Fns : db[pkFuncName(n)] = Claim(f) /\ NameOf[f] = n /\ pkFunc(f) \in DOMAIN db
      BY <3>1 DEF FnsOK, StoreInv
    <3>3. k # pkFunc(f)
      BY <1>4, <3>1, <3>2 DEF TodoOK
    <3>4. pkFunc(f) \in DOMAIN e
      BY <1>7, <3>2, <3>3 DEF Kept
    <3> QED BY <3>1, <3>2, <3>4
  <2> QED BY <2>1, <2>2, <2>3 DEF FnsOK
<1>12. SecretsOK(e, minted, won)
  BY <1>8, SecretsLost DEF StoreInv
<1>13. Secrets!Next
  <2>1. \A g \in Grants : pkOAuthGrantID(g) \in DOMAIN db' =>
               /\ pkOAuthGrantID(g) \in DOMAIN db
               /\ db'[pkOAuthGrantID(g)] = db[pkOAuthGrantID(g)]
    BY <1>1, <1>8 DEF e
  <2>2. TableOK(db')
    BY <1>1, <1>6 DEF e
  <2> QED BY <1>2, <2>1, <2>2, SecretsLose DEF StoreInv, TypeInv, ghosts
<1>14. /\ Reg(c)'.op = op[c] /\ Reg(c)'.got = got[c] /\ Reg(c)'.todo = todo[c] \ {k}
       /\ Reg(c)'.loc = loc'[c]
  <2>1. todo'[c] = todo[c] \ {k}
    BY <1>1 DEF StoreInv, TypeInv
  <2> QED BY <2>1, RegPartsNext DEF BatchDelete
<1>15. /\ loc'[c] \in {"batch", "count", "unprev", "ok"}
       /\ loc'[c] = "count" => op[c] = "Delete" /\ todo[c] = {k}
  BY <1>1 DEF StoreInv, TypeInv
<1>16. Deleting(Reg(c)') => Deleting(Reg(c))
  BY <1>3, <1>14, <1>15 DEF Deleting
<1>17. Deleting(Reg(c)) => Loaded(e, born, got[c]) /\ Named(e, got[c].name) /\ Retired(e, got[c].name)
  <2> SUFFICES ASSUME Deleting(Reg(c))
               PROVE  /\ Loaded(e, born, got[c])
                      /\ Named(e, got[c].name) /\ Retired(e, got[c].name)
    OBVIOUS
  <2>1. Loaded(db, born, got[c]) /\ Named(db, got[c].name) /\ Retired(db, got[c].name)
    BY <1>3 DEF RegOK
  <2> QED BY <1>8, <1>10, <2>1 DEF Loaded
<1>18. TodoOK(e, todo[c] \ {k})
  BY <1>4, <1>10 DEF TodoOK
<1>19. loc'[c] \in {"batch", "count"} /\ op[c] = "Delete" =>
         pkFunc(got[c].id) \notin DOMAIN e \/ pkFunc(got[c].id) \in todo[c] \ {k}
  BY <1>3, <1>8 DEF RegOK
<1>20. RegOK(e, born, Reg(c)')
  BY <1>14, <1>15, <1>16, <1>17, <1>18, <1>19 DEF RegOK, Deleting
<1>21. db' = e
  BY <1>1 DEF e
<1> QED BY <1>2, <1>6, <1>8, <1>9, <1>11, <1>12, <1>13, <1>16, <1>20, <1>21, ShrinkKeeps

\* A deletion is taken off the counter when the row is gone: the first of two
\* that deleted the row takes off what the counter owed, the other one more, and
\* so does a statement that is sent again.
LEMMA CountWrites ==
    ASSUME StoreInv, NEW c \in Calls, DeleteCount(c)
    PROVE  Right
<1> SUFFICES ASSUME NEW f, NEW s, f = got[c].id, s = functionCountScope(got[c])
             PROVE  Right
  OBVIOUS
<1> DEFINE e == Put(db, pkFuncCount(s), CountIn(s) - 1)
<1> USE DEF At, MoveTo, server, reg
<1>1. /\ Moves(c) /\ UNCHANGED <<crashes, born, minted, won>> /\ loc'[c] \in {"recount", "ok"}
      /\ got' = got /\ settled' = settled \cup {f}
  BY DEF DeleteCount, Moves, Reg, StoreInv, TypeInv, Places, Over, ghosts
<1>2. db' = e
  BY DEF DeleteCount
<1>3. Reg(c).loc \in {"count", "recount"} /\ Reg(c).got = got[c] /\ RegOK(db, born, Reg(c))
  BY RegParts DEF DeleteCount, StoreInv
<1>4. Deleting(Reg(c)) /\ Loaded(db, born, got[c]) /\ pkFunc(f) \notin DOMAIN db
  BY <1>3 DEF RegOK, Deleting
<1>5. f \in Fns /\ f \in born /\ s \in Scopes
  BY <1>4, ScopeOfRow DEF Loaded
<1>6. CountIn(s) \in Int
  BY CountInInt DEF StoreInv, TypeInv
<1>7. TableOK(e) /\ LockOK(e) /\ Lasting(db, born, e)
  <2>1. TableOK(e)
    BY <1>6, ShapedKeys, TablePut DEF StoreInv, TypeInv
  <2>2. LockOK(e)
    BY LockPut, KeyFacts DEF StoreInv
  <2>3. Lasting(db, born, e)
    BY LastingSelf, LastingPut, KeyFacts
  <2> QED BY <2>1, <2>2, <2>3
<1>8. \A j : j # pkFuncCount(s) => Kept(db, e, j)
  BY DEF Kept, Put
<1>9. pkFuncCount(s) \in DOMAIN e /\ e[pkFuncCount(s)] = CountIn(s) - 1
  BY DEF Put
<1> HIDE DEF e
<1>10. FnKept(db, e) /\ IdKept(db, e)
  <2>1. pkFuncCount(s)[1] = "COUNT"
    BY KeyFacts
  <2>2. FnKept(db, e)
    BY <1>8, <2>1 DEF FnKept, IsFnKey
  <2>3. IdKept(db, e)
    BY <1>8, <2>1, KeyFacts DEF IdKept
  <2> QED BY <2>2, <2>3
<1>11. /\ FnsOK(e) /\ SameCreators(db, e)
       /\ \A g : pkFunc(g) \in DOMAIN e <=> pkFunc(g) \in DOMAIN db
       /\ \A g : pkFunc(g) \in DOMAIN db => e[pkFunc(g)] = db[pkFunc(g)]
       /\ \A n : Named(e, n) <=> Named(db, n)
  BY <1>10, FnFrame DEF StoreInv
<1>12. GivenOut(db', born', settled')
  BY <1>1, <1>2, <1>4, <1>5, <1>11 DEF GivenOut, StoreInv
<1>13. RegOK(db', born', Reg(c)')
  <2>1. CASE loc'[c] = "ok"
    BY <2>1, OverReg, RegPartsNext DEF Over
  <2>2. CASE loc'[c] = "recount"
    <3>1. Reg(c)'.loc = "recount" /\ Reg(c)'.got = got[c] /\ born' = born
      BY <1>1, <2>2, RegPartsNext
    <3>2. Loaded(db', born, got[c])
      <4>1. RegOK(db', born, Reg(c))
        BY <1>2, <1>3, <1>7, <1>11, RegFrame
      <4> QED BY <1>3, <1>4, <4>1 DEF RegOK
    <3>3. Named(db', got[c].name) /\ Retired(db', got[c].name)
      BY <1>2, <1>3, <1>4, <1>8, <1>11, KeyFacts DEF RegOK, Named, Retired, Kept
    <3> QED BY <1>2, <1>4, <1>11, <3>1, <3>2, <3>3 DEF RegOK, Deleting
  <2> QED BY <1>1, <2>1, <2>2
<1>14. \A g \in Fns : \A t : OwedFn(g, t)' => OwedFn(g, t)
  <2>1. RowsShrink(db, db')
    BY <1>2, <1>11 DEF RowsShrink
  <2> QED BY <1>1, <1>4, <2>1, OwedFrame
<1>15. ASSUME NEW t \in Scopes, t # s
       PROVE  CountIn(t)' = CountIn(t) /\ extra'[t] = extra[t]
  <2>1. Kept(db, e, pkFuncCount(t))
    BY <1>8, <1>15, KeyFacts
  <2>2. CountIn(t)' = CountIn(t)
    BY <1>2, <2>1 DEF CountIn, Has, Kept
  <2>3. extra'[t] = extra[t]
    BY <1>15 DEF DeleteCount, StoreInv, TypeInv
  <2> QED BY <2>2, <2>3
<1>16. CountIn(s)' = CountIn(s) - 1
  BY <1>2, <1>9 DEF CountIn, Has
<1>17. extra'[s] = IF f \in settled THEN extra[s] + 1 ELSE extra[s]
  BY <1>5 DEF DeleteCount, StoreInv, TypeInv
<1>18. extra' \in [Scopes -> Nat]
  <2>1. extra \in [Scopes -> Nat] /\ extra[s] + 1 \in Nat
    BY <1>5 DEF StoreInv, TypeInv
  <2>2. extra' = extra \/ extra' = [extra EXCEPT ![s] = extra[s] + 1]
    BY DEF DeleteCount
  <2> QED BY <2>1, <2>2
<1>19. f \notin settled => pkFunc(f) \in Owed(s) /\ pkFunc(f) \notin Owed(s)'
  <2>1. f \notin settled => OwedFn(f, s)
    BY <1>4 DEF OwedFn
  <2>2. ~OwedFn(f, s)'
    BY <1>1, <1>2, <1>4, <1>11 DEF OwedFn
  <2> QED BY <1>5, <2>1, <2>2, KeyFacts DEF Owed
<1>20. CountInv'
  <2> SUFFICES ASSUME NEW t \in Scopes
               PROVE  (CountIn(t) + extra[t] >= Cardinality(Owed(t)))'
    BY DEF CountInv
  <2>1. Owed(t)' \subseteq Owed(t)
    BY <1>14 DEF Owed
  <2>2. /\ Owed(t) \subseteq {pkFunc(g) : g \in Fns}
        /\ IsFiniteSet(Owed(t)) /\ Cardinality(Owed(t)) \in Nat
    BY OwedFinite
  <2>3. Cardinality(Owed(t)') <= Cardinality(Owed(t)) /\ Cardinality(Owed(t)') \in Nat
    BY <2>1, <2>2, RowsCount
  <2>4. CountIn(t) + extra[t] >= Cardinality(Owed(t))
    BY <1>1 DEF StoreInv, CountInv, Moves
  <2>5. CountIn(t) \in Int /\ extra[t] \in Nat
    BY CountInInt DEF StoreInv, TypeInv
  <2> HIDE DEF Owed
  <2>6. CASE t # s
    BY <1>15, <2>2, <2>3, <2>4, <2>5, <2>6
  <2>7. CASE t = s /\ f \in settled
    BY <1>16, <1>17, <2>2, <2>3, <2>4, <2>5, <2>7
  <2>8. CASE t = s /\ f \notin settled
    <3>1. Owed(t)' \subseteq Owed(t) \ {pkFunc(f)} /\ pkFunc(f) \in Owed(t)
      BY <1>19, <2>1, <2>8
    <3>2. Cardinality(Owed(t) \ {pkFunc(f)}) = Cardinality(Owed(t)) - 1
      BY <2>2, <3>1, FS_RemoveElement
    <3>3. Cardinality(Owed(t)') <= Cardinality(Owed(t) \ {pkFunc(f)})
      BY <2>2, <3>1, RowsCount
    <3> QED BY <1>16, <1>17, <2>2, <2>3, <2>4, <2>5, <2>8, <3>2, <3>3
  <2> QED BY <2>6, <2>7, <2>8
<1>21. SecretsOK(db', minted', won')
  BY <1>1, <1>2, <1>10, SecretsFrame DEF StoreInv
<1>22. UNCHANGED Secrets!vars
  BY <1>1, <1>2, <1>7, <1>10, SecretStutter DEF StoreInv, TypeInv
<1>23. \A g \in Fns : pkFunc(g) \in DOMAIN db' => Named(db', NameOf[g])
  BY <1>1, <1>2, <1>11 DEF StoreInv, PhaseInv, Moves
<1>24. MintInv' /\ minted' \subseteq Calls /\ won' \in [Calls -> Calls \cup {Nil}]
  BY <1>1, MintFrame DEF StoreInv, TypeInv
<1> QED
  BY <1>1, <1>2, <1>7, <1>11, <1>12, <1>13, <1>18, <1>20, <1>21, <1>22, <1>23, <1>24, CallKeeps

\* What a created function's items are, beside those that were there.
LEMMA CreatedItems ==
    ASSUME TableOK(db), LockOK(db), NEW f \in Fns, f \notin born, KeysOf(f) \cap DOMAIN db = {},
           NEW e, e = Created(f), NEW s, s = ScopeOf(f)
    PROVE  /\ TableOK(e) /\ LockOK(e) /\ Lasting(db, born, e)
           /\ e[pkFunc(f)] = Item(f, CreatorOf[f], Nil)
           /\ e[pkFuncName(NameOf[f])] = Claim(f)
           /\ e[pkFuncPtr(OwnerOf[f], NameOf[f])] = f
           /\ e[pkFuncCount(s)] = CountIn(s) + 1
           /\ DOMAIN e = DOMAIN db \cup KeysOf(f) \cup {pkFuncCount(s)}
           /\ \A j \in DOMAIN db : j # pkFuncCount(s) => e[j] = db[j]
<1> DEFINE k1 == pkFunc(f)
           k2 == pkFuncName(NameOf[f])
           k3 == pkFuncPtr(OwnerOf[f], NameOf[f])
           k4 == pkFuncList(OwnerOf[f], f)
           k5 == pkFuncCount(s)
           x1 == Item(f, CreatorOf[f], Nil)
           x5 == CountIn(s) + 1
           e1 == Put(db, k1, x1)
           e2 == Put(e1, k2, Claim(f))
           e3 == Put(e2, k3, f)
           e4 == Put(e3, k4, f)
           e5 == Put(e4, k5, x5)
<1>1. e = e5
  BY DEF Created
<1>2. k1[1] = "FUNC" /\ k2[1] = "NAME" /\ k3[1] = "PTR" /\ k4[1] = "LIST" /\ k5[1] = "COUNT"
      /\ k1[2] = f
  BY KeyFacts
<1>3. k1 \notin DOMAIN db /\ k2 \notin DOMAIN db /\ k3 \notin DOMAIN db /\ k4 \notin DOMAIN db
  BY DEF KeysOf
<1>4. /\ KeyOK(k1) /\ ItemOK(k1, x1) /\ KeyOK(k2) /\ ItemOK(k2, Claim(f))
      /\ KeyOK(k3) /\ ItemOK(k3, f) /\ KeyOK(k4) /\ ItemOK(k4, f) /\ KeyOK(k5) /\ ItemOK(k5, x5)
  <2>1. x1 \in FnRow(f)
    BY DEF FnRow, Item, Creators
  <2>2. Claim(f) \in NameClaim /\ NameOf[f] \in Names
    BY DEF Claim, NameClaim, Names
  <2>3. x5 \in Int
    BY CountInInt
  <2> QED BY <1>2, <2>1, <2>2, <2>3, ShapedKeys, PlainKeys
<1> HIDE DEF k1, k2, k3, k4, k5, x1, x5
<1>5. TableOK(e1) /\ LockOK(e1) /\ Lasting(db, born, e1)
  BY <1>2, <1>3, <1>4, TablePut, LockPut, LastingSelf, LastingPut
<1>6. TableOK(e2) /\ LockOK(e2) /\ Lasting(db, born, e2)
  <2> HIDE DEF e1
  <2> QED BY <1>2, <1>3, <1>4, <1>5, TablePut, LockPut, LastingPut
<1>7. TableOK(e3) /\ LockOK(e3) /\ Lasting(db, born, e3)
  <2> HIDE DEF e2
  <2> QED BY <1>2, <1>3, <1>4, <1>6, TablePut, LockPut, LastingPut
<1>8. TableOK(e4) /\ LockOK(e4) /\ Lasting(db, born, e4)
  <2> HIDE DEF e3
  <2> QED BY <1>2, <1>3, <1>4, <1>7, TablePut, LockPut, LastingPut
<1>9. TableOK(e5) /\ LockOK(e5) /\ Lasting(db, born, e5)
  <2> HIDE DEF e4
  <2> QED BY <1>2, <1>3, <1>4, <1>8, TablePut, LockPut, LastingPut
<1>10. DOMAIN e5 = DOMAIN db \cup {k1, k2, k3, k4} \cup {k5}
  <2>1. DOMAIN e1 = DOMAIN db \cup {k1} /\ DOMAIN e2 = DOMAIN e1 \cup {k2}
    BY DEF Put
  <2>2. DOMAIN e3 = DOMAIN e2 \cup {k3} /\ DOMAIN e4 = DOMAIN e3 \cup {k4}
        /\ DOMAIN e5 = DOMAIN e4 \cup {k5}
    <3> HIDE DEF e2
    <3> QED BY DEF Put
  <2> HIDE DEF e1, e2, e3, e4, e5
  <2> QED BY <2>1, <2>2
<1>11. /\ e1[k1] = x1 /\ \A j \in DOMAIN db : j # k5 => j \in DOMAIN e1 /\ e1[j] = db[j]
       /\ k1 \in DOMAIN e1
  BY <1>3 DEF Put
<1>12. /\ e2[k1] = x1 /\ e2[k2] = Claim(f) /\ k1 \in DOMAIN e2 /\ k2 \in DOMAIN e2
       /\ \A j \in DOMAIN db : j # k5 => j \in DOMAIN e2 /\ e2[j] = db[j]
  <2> HIDE DEF e1
  <2> QED BY <1>2, <1>3, <1>11 DEF Put
<1>13. /\ e3[k1] = x1 /\ e3[k2] = Claim(f) /\ e3[k3] = f
       /\ k1 \in DOMAIN e3 /\ k2 \in DOMAIN e3 /\ k3 \in DOMAIN e3
       /\ \A j \in DOMAIN db : j # k5 => j \in DOMAIN e3 /\ e3[j] = db[j]
  <2> HIDE DEF e2
  <2> QED BY <1>2, <1>3, <1>12 DEF Put
<1>14. /\ e4[k1] = x1 /\ e4[k2] = Claim(f) /\ e4[k3] = f
       /\ k1 \in DOMAIN e4 /\ k2 \in DOMAIN e4 /\ k3 \in DOMAIN e4
       /\ \A j \in DOMAIN db : j # k5 => j \in DOMAIN e4 /\ e4[j] = db[j]
  <2> HIDE DEF e3
  <2> QED BY <1>2, <1>3, <1>13 DEF Put
<1>15. /\ e5[k1] = x1 /\ e5[k2] = Claim(f) /\ e5[k3] = f /\ e5[k5] = x5
       /\ \A j \in DOMAIN db : j # k5 => e5[j] = db[j]
  <2> HIDE DEF e4
  <2> QED BY <1>2, <1>14 DEF Put
<1> HIDE DEF e5
<1> QED BY <1>1, <1>9, <1>10, <1>15 DEF k1, k2, k3, k4, k5, x1, x5, KeysOf

\* A function is created with all its items and one more in its quota, or not
\* at all.
LEMMA CreateWrites ==
    ASSUME StoreInv, NEW c \in Calls, NEW f \in Fns, Create(c, f)
    PROVE  Right
<1> USE DEF Called, MoveTo, server, reg
<1>1. /\ Moves(c) /\ UNCHANGED <<settled, extra, minted, won>> /\ loc'[c] \in Over
      /\ f \notin born /\ born' = born \cup {f}
  BY DEF Create, Moves, Reg, StoreInv, TypeInv, Places, Over, ghosts
<1>2. CASE UNCHANGED db
  BY <1>1, <1>2, PlainHere, EndKeeps
<1>3. CASE KeysOf(f) \cap DOMAIN db = {} /\ db' = Created(f)
  <2> SUFFICES ASSUME NEW s, s = ScopeOf(f), NEW n, n = NameOf[f] PROVE Right
    OBVIOUS
  <2>1. /\ TableOK(db') /\ LockOK(db') /\ Lasting(db, born, db')
        /\ db'[pkFunc(f)] = Item(f, CreatorOf[f], Nil)
        /\ db'[pkFuncName(n)] = Claim(f)
        /\ db'[pkFuncPtr(OwnerOf[f], n)] = f
        /\ db'[pkFuncCount(s)] = CountIn(s) + 1
        /\ DOMAIN db' = DOMAIN db \cup KeysOf(f) \cup {pkFuncCount(s)}
        /\ \A j \in DOMAIN db : j # pkFuncCount(s) => db'[j] = db[j]
    <3>1. TableOK(db) /\ LockOK(db)
      BY DEF StoreInv, TypeInv
    <3> QED BY ONLY <1>1, <1>3, <3>1, CreatedItems, f \in Fns, s = ScopeOf(f), n = NameOf[f]
  <2>2. /\ pkFunc(f) \notin DOMAIN db /\ pkFuncName(n) \notin DOMAIN db
        /\ pkFuncPtr(OwnerOf[f], n) \notin DOMAIN db
    BY <1>3 DEF KeysOf
  <2>3. \A g : g # f => Kept(db, db', pkFunc(g))
    BY <2>1, KeyFacts DEF Kept, KeysOf
  <2>4. \A m : m # n => Kept(db, db', pkFuncName(m))
    BY <2>1, KeyFacts DEF Kept, KeysOf
  <2>5. \A v : Kept(db, db', pkVersion(v))
    BY <2>1, KeyFacts DEF Kept, KeysOf
  <2>6. IdKept(db, db')
    BY <2>1, KeyFacts DEF Kept, KeysOf, IdKept
  <2>7. \A t : t # s => Kept(db, db', pkFuncCount(t))
    BY <2>1, KeyFacts DEF Kept, KeysOf
  <2>8. \A g : Listed(db, g) => Listed(db', g)
    BY <2>1, KeyFacts DEF Listed
  <2>9. pkFunc(f) \in DOMAIN db' /\ Named(db', n) /\ Listed(db', f)
    BY <2>1 DEF KeysOf, Named, Listed
  <2>10. /\ \A m : m # n => (Named(db', m) <=> Named(db, m)) /\ (Retired(db', m) <=> Retired(db, m))
         /\ \A m : m # n /\ Named(db, m) => db'[pkFuncName(m)] = db[pkFuncName(m)]
         /\ ~Named(db, n) /\ ~Retired(db, n)
         /\ \A v, g : IsOf(db', v, g) <=> IsOf(db, v, g)
    BY <2>2, <2>4, <2>5 DEF Kept, Named, Retired, IsOf
  <2>11. \A g : g # f /\ pkFunc(g) \in DOMAIN db' =>
           pkFunc(g) \in DOMAIN db /\ db'[pkFunc(g)] = db[pkFunc(g)]
    BY <2>3 DEF Kept
  <2>12. FnsOK(db')
    <3>1. ASSUME NEW g \in Fns, pkFunc(g) \in DOMAIN db'
          PROVE  /\ Retired(db', NameOf[g]) \/ Listed(db', g)
                 /\ db'[pkFunc(g)].active # Nil => IsOf(db', db'[pkFunc(g)].active, g)
      <4>1. CASE g = f
        BY <2>1, <2>9, <4>1 DEF Item
      <4>2. CASE g # f
        BY <2>8, <2>10, <2>11, <3>1, <4>2 DEF FnsOK, StoreInv
      <4> QED BY <4>1, <4>2
    <3>2. ASSUME NEW m \in Names, Named(db', m), ~Retired(db', m)
          PROVE  \E g \in Fns : /\ db'[pkFuncName(m)] = Claim(g)
                                /\ NameOf[g] = m
                                /\ pkFunc(g) \in DOMAIN db'
      <4>1. CASE m = n
        BY <2>1, <2>9, <4>1
      <4>2. CASE m # n
        <5>1. Named(db, m) /\ ~Retired(db, m) /\ db'[pkFuncName(m)] = db[pkFuncName(m)]
          BY <2>10, <3>2, <4>2
        <5>2. PICK g \in Fns : db[pkFuncName(m)] = Claim(g) /\ NameOf[g] = m /\ pkFunc(g) \in DOMAIN db
          BY <5>1 DEF FnsOK, StoreInv
        <5> QED BY <2>1, <5>1, <5>2
      <4> QED BY <4>1, <4>2
    <3> QED BY <3>1, <3>2 DEF FnsOK
  <2>13. GivenOut(db', born', settled')
    BY <1>1, <2>11 DEF GivenOut, StoreInv
  <2>14. SameCreators(db, db')
    BY <2>2, <2>11 DEF SameCreators
  <2>15. ASSUME NEW g \in Fns, pkFunc(g) \in DOMAIN db' PROVE Named(db', NameOf[g])
    <3>1. CASE NameOf[g] = n
      BY <2>9, <3>1
    <3>2. CASE NameOf[g] # n
      <4>1. pkFunc(g) \in DOMAIN db
        BY <2>11, <2>15, <3>2
      <4>2. Named(db, NameOf[g])
        BY <1>1, <4>1 DEF StoreInv, PhaseInv, Moves
      <4> QED BY <2>10, <3>2, <4>2
    <3> QED BY <3>1, <3>2
  <2>16. ~Deleting(Reg(c))' /\ RegOK(db', born', Reg(c)')
    BY <1>1, OverReg, RegPartsNext DEF Deleting, Over
  <2>17. \A x \in Calls : Deleting(Reg(x))' => Deleting(Reg(x)) /\ got'[x] = got[x] /\ got[x].id # f
    <3> SUFFICES ASSUME NEW x \in Calls, Deleting(Reg(x))'
                 PROVE  Deleting(Reg(x)) /\ got'[x] = got[x] /\ got[x].id # f
      OBVIOUS
    <3>1. x # c
      BY <2>16
    <3>2. Reg(x)' = Reg(x) /\ got'[x] = got[x]
      BY <1>1, <3>1, RegParts, RegPartsNext DEF Moves
    <3>3. Deleting(Reg(x)) /\ RegOK(db, born, Reg(x)) /\ Reg(x).got = got[x]
      BY <3>2, RegParts DEF StoreInv
    <3>4. Loaded(db, born, got[x])
      BY <3>3 DEF RegOK
    <3> QED BY <1>1, <3>2, <3>3, <3>4 DEF Loaded
  <2>18. \A g \in Fns : \A t : g # f /\ OwedFn(g, t)' => OwedFn(g, t)
    BY <1>1, <2>11, <2>17 DEF OwedFn
  <2>19. \A t : OwedFn(f, t)' => t = s
    BY <2>1, <2>17 DEF OwedFn, ScopeOf
  <2>20. CountInv'
    <3> SUFFICES ASSUME NEW t \in Scopes
                 PROVE  (CountIn(t) + extra[t] >= Cardinality(Owed(t)))'
      BY DEF CountInv
    <3>1. /\ Owed(t) \subseteq {pkFunc(g) : g \in Fns}
          /\ IsFiniteSet(Owed(t)) /\ Cardinality(Owed(t)) \in Nat
      BY OwedFinite
    <3>2. CountIn(t) + extra[t] >= Cardinality(Owed(t))
      BY <1>1 DEF StoreInv, CountInv, Moves
    <3>3. CountIn(t) \in Int /\ extra[t] \in Nat /\ extra' = extra
      BY <1>1, CountInInt DEF StoreInv, TypeInv
    <3>4. CASE t # s
      <4>1. Owed(t)' \subseteq Owed(t)
        BY <2>18, <2>19, <3>4 DEF Owed
      <4>2. Cardinality(Owed(t)') <= Cardinality(Owed(t)) /\ Cardinality(Owed(t)') \in Nat
        BY <3>1, <4>1, RowsCount
      <4>3. CountIn(t)' = CountIn(t)
        BY <2>7, <3>4 DEF CountIn, Has, Kept
      <4> HIDE DEF Owed
      <4> QED BY <3>1, <3>2, <3>3, <4>2, <4>3
    <3>5. CASE t = s
      <4>1. Owed(t)' \subseteq Owed(t) \cup {pkFunc(f)}
        BY <2>18 DEF Owed
      <4>2. Owed(t) \cup {pkFunc(f)} \subseteq {pkFunc(g) : g \in Fns}
        BY <3>1
      <4>3. /\ Cardinality(Owed(t)') <= Cardinality(Owed(t) \cup {pkFunc(f)})
            /\ Cardinality(Owed(t)') \in Nat
            /\ Cardinality(Owed(t) \cup {pkFunc(f)}) \in Nat
        BY <4>1, <4>2, RowsCount
      <4>4. Cardinality(Owed(t) \cup {pkFunc(f)}) <= Cardinality(Owed(t)) + 1
        <5>1. CASE pkFunc(f) \in Owed(t)
          <6>1. Owed(t) \cup {pkFunc(f)} = Owed(t)
            BY <5>1
          <6>2. Cardinality(Owed(t) \cup {pkFunc(f)}) = Cardinality(Owed(t))
            BY <6>1, Zenon
          <6> QED BY <3>1, <6>2
        <5>2. CASE pkFunc(f) \notin Owed(t)
          <6>1. Cardinality(Owed(t) \cup {pkFunc(f)}) = Cardinality(Owed(t)) + 1
            BY <3>1, <5>2, FS_AddElement
          <6> QED BY <3>1, <6>1
        <5> QED BY <5>1, <5>2
      <4>5. CountIn(t)' = CountIn(t) + 1
        BY <2>1, <3>5 DEF CountIn, Has
      <4> HIDE DEF Owed
      <4> QED BY <3>1, <3>2, <3>3, <4>3, <4>4, <4>5
    <3> QED BY <3>4, <3>5
  <2>21. SecretsOK(db', minted', won')
    BY <1>1, <2>6, SecretsFrame DEF StoreInv
  <2>22. UNCHANGED Secrets!vars
    BY <1>1, <2>1, <2>6, SecretStutter DEF StoreInv, TypeInv
  <2>23. MintInv' /\ minted' \subseteq Calls /\ won' \in [Calls -> Calls \cup {Nil}]
    BY <1>1, MintFrame DEF StoreInv, TypeInv
  <2>24. born \subseteq born' /\ extra' \in [Scopes -> Nat]
    BY <1>1 DEF StoreInv, TypeInv
  <2> QED BY <1>1, <2>1, <2>12, <2>13, <2>14, <2>15, <2>16, <2>20, <2>21, <2>22, <2>23, <2>24, CallKeeps
<1> QED BY <1>2, <1>3 DEF Create

-----------------------------------------------------------------------------
(***************************************************************************)
(* The statements on refresh grants.                                       *)
(***************************************************************************)

\* A call that ends by minting its secret.
LEMMA MintKeeps ==
    ASSUME StoreInv, NEW c \in Calls, Moves(c), loc'[c] = "ok",
           TableOK(db'), LockOK(db'), Lasting(db, born, db'), FnKept(db, db'), CountKept(db, db'),
           born \subseteq born', UNCHANGED <<settled, extra>>, minted' = minted \cup {c},
           SecretsOK(db', minted', won'), won' \in [Calls -> Calls \cup {Nil}],
           \A x \in Calls \ {c} : won'[x] = won[x],
           Secrets!Next
    PROVE  Right
<1>1. /\ FnsOK(db') /\ SameCreators(db, db') /\ GivenOut(db', born, settled)
      /\ RowsShrink(db, db')
      /\ \A f : pkFunc(f) \in DOMAIN db' <=> pkFunc(f) \in DOMAIN db
      /\ \A n : Named(db', n) <=> Named(db, n)
  BY FnFrame DEF StoreInv, RowsShrink
<1>2. GivenOut(db', born', settled')
  BY <1>1 DEF GivenOut
<1>3. \A f \in Fns : pkFunc(f) \in DOMAIN db' => Named(db', NameOf[f])
  BY <1>1 DEF StoreInv, PhaseInv, Moves
<1>4. ~Deleting(Reg(c))' /\ RegOK(db', born', Reg(c)')
  BY OverReg, RegPartsNext DEF Deleting, Over
<1>5. CountInv'
  <2>1. \A f \in Fns : \A s : OwedFn(f, s)' => OwedFn(f, s)
    BY <1>1, <1>4, OwedFrame
  <2> QED BY <2>1, CountsFrame DEF StoreInv, Moves
<1>6. MintInv'
  <2>1. \A x \in Calls \ {c} : loc'[x] = loc[x]
    BY RegParts, RegPartsNext DEF Moves
  <2> QED BY <2>1 DEF StoreInv, MintInv
<1> QED BY <1>1, <1>2, <1>3, <1>4, <1>5, <1>6, CallKeeps DEF StoreInv, TypeInv

\* The first secret of a grant.
LEMMA GrantWrites ==
    ASSUME StoreInv, NEW c \in Calls, NEW g \in Grants, CreateGrant(c, g)
    PROVE  Right
<1> DEFINE x == [id |-> g, prev |-> Nil]
           e == Put(db, pkOAuthGrant(c), x)
           e2 == Put(e, pkOAuthGrantID(g), c)
<1> USE DEF Called, MoveTo, server, reg
<1>1. /\ Moves(c) /\ loc'[c] = "ok" /\ born \subseteq born' /\ UNCHANGED <<settled, extra, won>>
      /\ minted' = minted \cup {c} /\ loc[c] = "start" /\ db' = e2
  BY DEF CreateGrant, Moves, Reg, StoreInv, TypeInv, Places, Over, ghosts
<1>2. c \notin minted
  BY <1>1 DEF StoreInv, MintInv
<1>3. TableOK(e) /\ LockOK(e) /\ Lasting(db, born, e)
  <2>1. KeyOK(pkOAuthGrant(c)) /\ ItemOK(pkOAuthGrant(c), x)
    BY ShapedKeys DEF GrantItem
  <2> HIDE DEF x
  <2>2. TableOK(e) /\ LockOK(e)
    BY <2>1, TablePut, LockPut, KeyFacts DEF StoreInv, TypeInv
  <2>3. Lasting(db, born, e)
    BY LastingSelf, LastingPut, KeyFacts
  <2> QED BY <2>2, <2>3
<1>4. TableOK(e2) /\ LockOK(e2) /\ Lasting(db, born, e2)
  <2>1. KeyOK(pkOAuthGrantID(g)) /\ ItemOK(pkOAuthGrantID(g), c)
    BY ShapedKeys
  <2> HIDE DEF e
  <2> QED BY <1>3, <2>1, TablePut, LockPut, LastingPut, KeyFacts
<1>5. ASSUME NEW k, k[1] # "GRANT", k # pkOAuthGrantID(g) PROVE Kept(db, e2, k)
  <2>1. Kept(db, e, k)
    BY <1>5, KeyFacts DEF Kept, Put
  <2> HIDE DEF e
  <2> QED BY <1>5, <2>1, PutKept
<1>6. pkOAuthGrantID(g) \in DOMAIN e2 /\ e2[pkOAuthGrantID(g)] = c
  BY DEF Put
<1> HIDE DEF e2
<1>7. FnKept(db, e2)
  BY <1>5, KeyFacts DEF FnKept, IsFnKey
<1>8. CountKept(db, e2)
  BY <1>5, KeyFacts DEF CountKept
<1>9. \A h : h # g => Kept(db, e2, pkOAuthGrantID(h))
  BY <1>5, KeyFacts
<1>10. SecretsOK(e2, minted \cup {c}, won)
  BY <1>2, <1>6, <1>9 DEF Kept, SecretsOK, StoreInv
<1>11. Secrets!Next
  <2>1. InForce = {db[pkOAuthGrantID(h)] : h \in {j \in Grants : pkOAuthGrantID(j) \in DOMAIN db}}
    BY InForceKeys DEF StoreInv, TypeInv
  <2>2. InForce' = {e2[pkOAuthGrantID(h)] : h \in {j \in Grants : pkOAuthGrantID(j) \in DOMAIN e2}}
    BY <1>1, <1>4, KeyFacts DEF InForce, RowsOf, TableOK, KeyOK
  <2>3. c \in InForce' /\ InForce' \subseteq InForce \cup {c} /\ InForce \subseteq minted
    BY <1>6, <1>9, <2>1, <2>2 DEF Kept, SecretsOK, StoreInv
  <2>4. (minted \ InForce)' = (minted \ InForce) \cup (InForce \ InForce')
    BY <1>1, <1>2, <2>3
  <2>5. Secrets!Issue(c)
    BY <1>1, <1>2, <2>3, <2>4 DEF Secrets!Issue, InForce
  <2> QED BY <2>5 DEF Secrets!Next
<1>12. won' \in [Calls -> Calls \cup {Nil}]
  BY <1>1 DEF StoreInv, TypeInv
<1> QED BY <1>1, <1>4, <1>7, <1>8, <1>10, <1>11, <1>12, MintKeeps

\* A rotation trades the secret in force for the call's.
LEMMA RotatePutWrites ==
    ASSUME StoreInv, NEW c \in Calls, RotatePut(c)
    PROVE  Right
<1> USE DEF At, MoveTo, server, reg, Has
<1>1. /\ Moves(c) /\ UNCHANGED <<crashes, born, settled, extra>> /\ loc'[c] \in {"ok", "conflict"}
      /\ loc[c] = "rotate"
  BY DEF RotatePut, Moves, Reg, StoreInv, TypeInv, Places, Over, ghosts
<1>2. CASE UNCHANGED <<db, minted, won>>
  BY <1>1, <1>2, PlainHere, EndKeeps DEF Over
<1>3. CASE ~UNCHANGED <<db, minted, won>>
  <2> SUFFICES ASSUME NEW g, g = got[c].id, NEW a, a = arg[c], NEW p, p = got[c].prev
               PROVE  Right
    OBVIOUS
  <2> DEFINE x == [id |-> g, prev |-> a]
             e1 == Without(db, {pkOAuthGrant(a), pkOAuthGrantPrev(p)})
             e2 == Put(e1, pkOAuthGrant(c), x)
             e3 == Put(e2, pkOAuthGrantID(g), c)
             e4 == Put(e3, pkOAuthGrantPrev(a), g)
  <2>1. /\ pkOAuthGrantID(g) \in DOMAIN db /\ db[pkOAuthGrantID(g)] = a
        /\ db' = e4 /\ loc'[c] = "ok"
        /\ minted' = minted \cup {c} /\ won' = [won EXCEPT ![c] = a]
    BY <1>3 DEF RotatePut, Rotated, StoreInv, TypeInv
  <2>2. g \in Grants /\ a \in Calls /\ a \in minted
    BY <2>1, TableHas DEF StoreInv, TypeInv, SecretsOK
  <2>3. c \notin minted /\ won[c] = Nil
    BY <1>1 DEF StoreInv, MintInv
  <2>4. TableOK(e1) /\ LockOK(e1) /\ Lasting(db, born, e1)
    <3>1. \A k \in {pkOAuthGrant(a), pkOAuthGrantPrev(p)} : k[1] \in {"GRANT", "PREV"}
      BY KeyFacts
    <3>2. TableOK(e1) /\ LockOK(e1)
      BY <3>1, TableWithout, LockWithout DEF StoreInv, TypeInv
    <3>3. Lasting(db, born, e1)
      BY <3>1, LastingSelf, LastingWithout
    <3> QED BY <3>2, <3>3
  <2>5. TableOK(e2) /\ LockOK(e2) /\ Lasting(db, born, e2)
    <3>1. KeyOK(pkOAuthGrant(c)) /\ ItemOK(pkOAuthGrant(c), x)
      BY <2>2, ShapedKeys DEF GrantItem
    <3> HIDE DEF e1, x
    <3> QED BY <2>4, <3>1, TablePut, LockPut, LastingPut, KeyFacts
  <2>6. TableOK(e3) /\ LockOK(e3) /\ Lasting(db, born, e3)
    <3>1. KeyOK(pkOAuthGrantID(g)) /\ ItemOK(pkOAuthGrantID(g), c)
      BY <2>2, ShapedKeys
    <3> HIDE DEF e2
    <3> QED BY <2>5, <3>1, TablePut, LockPut, LastingPut, KeyFacts
  <2>7. TableOK(e4) /\ LockOK(e4) /\ Lasting(db, born, e4)
    <3>1. KeyOK(pkOAuthGrantPrev(a)) /\ ItemOK(pkOAuthGrantPrev(a), g)
      BY PlainKeys, KeyFacts
    <3> HIDE DEF e3
    <3> QED BY <2>6, <3>1, TablePut, LockPut, LastingPut, KeyFacts
  <2>8. ASSUME NEW k, k[1] \notin {"GRANT", "PREV"}, k # pkOAuthGrantID(g)
        PROVE  Kept(db, e4, k)
    <3>1. Kept(db, e1, k)
      BY <2>8, KeyFacts DEF Kept, Without
    <3>2. Kept(db, e2, k)
      <4> HIDE DEF e1
      <4> QED BY <2>8, <3>1, PutKept, KeyFacts
    <3>3. Kept(db, e3, k)
      <4> HIDE DEF e2
      <4> QED BY <2>8, <3>2, PutKept, KeyFacts
    <3> HIDE DEF e3
    <3> QED BY <2>8, <3>3, PutKept, KeyFacts
  <2>9. pkOAuthGrantID(g) \in DOMAIN e4 /\ e4[pkOAuthGrantID(g)] = c
    <3>1. pkOAuthGrantID(g) \in DOMAIN e3 /\ e3[pkOAuthGrantID(g)] = c
      BY DEF Put
    <3> HIDE DEF e3
    <3> QED BY <3>1, KeyFacts DEF Put
  <2> HIDE DEF e4
  <2>10. FnKept(db, e4)
    BY <2>8, KeyFacts DEF FnKept, IsFnKey
  <2>11. CountKept(db, e4)
    BY <2>8, KeyFacts DEF CountKept
  <2>12. \A h : h # g => Kept(db, e4, pkOAuthGrantID(h))
    BY <2>8, KeyFacts
  <2>13. /\ won' \in [Calls -> Calls \cup {Nil}] /\ won'[c] = a
         /\ \A y \in Calls \ {c} : won'[y] = won[y]
    BY <2>1, <2>2 DEF StoreInv, TypeInv
  <2>14. \A h \in Grants : pkOAuthGrantID(h) \in DOMAIN e4 =>
           \/ h = g /\ e4[pkOAuthGrantID(h)] = c
           \/ /\ h # g /\ pkOAuthGrantID(h) \in DOMAIN db
              /\ e4[pkOAuthGrantID(h)] = db[pkOAuthGrantID(h)]
              /\ db[pkOAuthGrantID(h)] # a /\ db[pkOAuthGrantID(h)] \in minted
    BY <2>1, <2>2, <2>9, <2>12 DEF Kept, SecretsOK, StoreInv
  <2>15. SecretsOK(e4, minted \cup {c}, won')
    <3>1. \A h, j \in Grants :
            /\ pkOAuthGrantID(h) \in DOMAIN e4 /\ pkOAuthGrantID(j) \in DOMAIN e4
            /\ e4[pkOAuthGrantID(h)] = e4[pkOAuthGrantID(j)]
            => h = j
      BY <2>3, <2>14 DEF SecretsOK, StoreInv
    <3>2. \A h \in Grants : pkOAuthGrantID(h) \in DOMAIN e4 =>
            e4[pkOAuthGrantID(h)] \in minted \cup {c}
      BY <2>14
    <3>3. ASSUME NEW y \in Calls, won'[y] # Nil
          PROVE  /\ won'[y] \in minted \cup {c}
                 /\ \A h \in Grants : pkOAuthGrantID(h) \in DOMAIN e4 =>
                      e4[pkOAuthGrantID(h)] # won'[y]
      <4>1. CASE y = c
        BY <2>2, <2>3, <2>13, <2>14, <4>1
      <4>2. CASE y # c
        BY <2>3, <2>13, <2>14, <3>3, <4>2 DEF SecretsOK, StoreInv
      <4> QED BY <4>1, <4>2
    <3> QED BY <3>1, <3>2, <3>3 DEF SecretsOK
  <2>16. Secrets!Next
    <3>1. InForce = {db[pkOAuthGrantID(h)] : h \in {j \in Grants : pkOAuthGrantID(j) \in DOMAIN db}}
      BY InForceKeys DEF StoreInv, TypeInv
    <3>2. InForce' = {e4[pkOAuthGrantID(h)] : h \in {j \in Grants : pkOAuthGrantID(j) \in DOMAIN e4}}
      BY <2>1, <2>7, KeyFacts DEF InForce, RowsOf, TableOK, KeyOK
    <3>3. a \in InForce /\ InForce \subseteq minted
      BY <2>1, <2>2, <3>1 DEF SecretsOK, StoreInv
    <3>4. InForce' = (InForce \ {a}) \cup {c}
      <4>1. c \in InForce'
        BY <2>2, <2>9, <3>2
      <4>2. \A y \in InForce' : y = c \/ (y \in InForce /\ y # a)
        BY <2>14, <3>1, <3>2
      <4>3. \A y \in InForce : y = a \/ y \in InForce'
        BY <2>1, <2>12, <3>1, <3>2 DEF Kept
      <4>4. a # c
        BY <2>2, <2>3
      <4> QED BY <4>1, <4>2, <4>3, <4>4
    <3>5. (minted \ InForce)' = (minted \ InForce) \cup {a}
      BY <2>1, <2>3, <3>3, <3>4
    <3>6. [h \in Calls |-> {y \in Calls : won'[y] = h}] =
            [[h \in Calls |-> {y \in Calls : won[y] = h}] EXCEPT ![a] = {c}]
      <4>1. \A y \in Calls : won[y] # a
        BY <2>1, <2>2, NilAssumption DEF SecretsOK, StoreInv
      <4>2. \A h \in Calls : {y \in Calls : won'[y] = h} =
                                IF h = a THEN {c} ELSE {y \in Calls : won[y] = h}
        <5>1. \A h \in Calls : won[c] # h
          BY <2>3, NilAssumption
        <5> QED BY <2>13, <4>1, <5>1
      <4> QED BY <2>2, <4>2
    <3>7. Secrets!Trade(a, c)
      BY <2>3, <3>3, <3>4, <3>5, <3>6 DEF Secrets!Trade, InForce
    <3> QED BY <2>2, <3>7 DEF Secrets!Next
  <2> QED BY <1>1, <2>1, <2>7, <2>10, <2>11, <2>13, <2>15, <2>16, MintKeeps
<1> QED BY <1>2, <1>3

-----------------------------------------------------------------------------
(***************************************************************************)
(* Migrations and crashes.                                                 *)
(***************************************************************************)

\* No call runs beside a migration.
LEMMA AllOver ==
    ASSUME StoreInv, phase # "serving"
    PROVE  \A c \in Calls : loc[c] \in Over /\ ~Deleting(Reg(c))
BY RegParts DEF StoreInv, PhaseInv, Deleting, Over

\* What a step of a migration has to show.
LEMMA MigrateKeeps ==
    ASSUME StoreInv, phase # "serving", UNCHANGED <<loc, reg, crashes, born, settled, minted, won>>,
           phase' \in Phases, mig' \in Users \cup {Nil}, extra' \in [Scopes -> Nat],
           TableOK(db'), LockOK(db'), Lasting(db, born, db'), IdKept(db, db'),
           FnsOK(db'), GivenOut(db', born, settled),
           phase' # "names" => \A f \in Fns : pkFunc(f) \in DOMAIN db' => Named(db', NameOf[f]),
           phase' \in {"pointer", "unlink"} => Lock \in DOMAIN db',
           CountInv'
    PROVE  Right
<1>1. \A c \in Calls : loc'[c] \in Over
  BY AllOver
<1>2. TypeInv'
  BY DEF StoreInv, TypeInv, reg
<1>3. PhaseInv' /\ MintInv'
  BY <1>1 DEF StoreInv, PhaseInv, MintInv
<1>4. \A c \in Calls : RegOK(db', born', Reg(c)')
  BY <1>1, OverReg, RegPartsNext
<1>5. SecretsOK(db', minted', won') /\ GivenOut(db', born', settled')
  BY SecretsFrame DEF StoreInv
<1>6. UNCHANGED Secrets!vars
  BY SecretStutter DEF StoreInv, TypeInv
<1> QED BY <1>2, <1>3, <1>4, <1>5, <1>6 DEF StoreInv, Right

\* A step of a migration whose statement is plain.
LEMMA MigratePlain ==
    ASSUME StoreInv, phase # "serving", UNCHANGED <<loc, reg, crashes, born, settled, extra, minted, won>>,
           phase' \in Phases \ {"serving"}, phase' = "names" \/ phase # "names",
           mig' \in Users \cup {Nil},
           Plain(db, born, db'), phase' \in {"pointer", "unlink"} => Lock \in DOMAIN db
    PROVE  Right
<1>1. /\ FnsOK(db') /\ GivenOut(db', born, settled)
      /\ \A f : pkFunc(f) \in DOMAIN db' <=> pkFunc(f) \in DOMAIN db
      /\ \A n : Named(db', n) <=> Named(db, n)
  BY FnFrame DEF StoreInv, Plain
<1>2. phase' # "names" => \A f \in Fns : pkFunc(f) \in DOMAIN db' => Named(db', NameOf[f])
  BY <1>1 DEF StoreInv, PhaseInv
<1>3. Lock \in DOMAIN db => Lock \in DOMAIN db'
  BY DEF Plain, Lasting
<1>4. CountInv' /\ extra' \in [Scopes -> Nat]
  BY DEF CountInv, StoreInv, TypeInv
<1> QED BY <1>1, <1>2, <1>3, <1>4, MigrateKeeps DEF Plain

\* The name of a function is claimed for the oldest that has it.
LEMMA NameBackfill ==
    ASSUME StoreInv, NEW n, BackfillName(n)
    PROVE  Right
<1> USE DEF server, Has
<1>1. PICK k \in RowsOf("FUNC") : db[k].name = n /\ db' = Put(db, pkFuncName(n), Claim(k[2]))
  BY DEF BackfillName
<1>2. /\ phase = "names" /\ UNCHANGED <<phase, mig, loc, reg, crashes, born, settled, extra, minted, won>>
      /\ pkFuncName(n) \notin DOMAIN db
  BY DEF BackfillName, Unclaimed, ghosts
<1>3. PICK f \in Fns : k = pkFunc(f)
  BY <1>1 DEF RowsOf, StoreInv, TypeInv, TableOK, KeyOK
<1>4. pkFunc(f) \in DOMAIN db /\ NameOf[f] = n /\ k[2] = f
  BY <1>1, <1>3, RowLoaded, KeyFacts DEF RowsOf
<1> DEFINE e == Put(db, pkFuncName(n), Claim(f))
<1>5. db' = e
  BY <1>1, <1>4
<1>6. Claim(f) \in NameClaim /\ n \in Names /\ Claim(f).state = "active"
  BY <1>4 DEF Claim, NameClaim, Names
<1>7. TableOK(e) /\ LockOK(e) /\ Lasting(db, born, e)
  <2>1. KeyOK(pkFuncName(n)) /\ ItemOK(pkFuncName(n), Claim(f))
    BY <1>6, ShapedKeys
  <2>2. TableOK(e) /\ LockOK(e)
    BY <2>1, TablePut, LockPut, KeyFacts DEF StoreInv, TypeInv
  <2>3. Lasting(db, born, e)
    BY <1>2, LastingSelf, LastingPut, KeyFacts
  <2> QED BY <2>2, <2>3
<1>8. \A j : j # pkFuncName(n) => Kept(db, e, j)
  BY DEF Kept, Put
<1>9. pkFuncName(n) \in DOMAIN e /\ e[pkFuncName(n)] = Claim(f)
  BY DEF Put
<1> HIDE DEF e
<1>10. /\ \A m : m # n => Kept(db, e, pkFuncName(m))
       /\ \A o, m : Kept(db, e, pkFuncPtr(o, m))
       /\ \A o, g : Kept(db, e, pkFuncList(o, g))
       /\ \A g : Kept(db, e, pkFunc(g))
       /\ \A v : Kept(db, e, pkVersion(v))
       /\ IdKept(db, e)
  BY <1>8, KeyFacts DEF IdKept
<1>11. /\ \A m : m # n => Named(e, m) <=> Named(db, m)
       /\ \A m : m # n /\ Named(db, m) => e[pkFuncName(m)] = db[pkFuncName(m)]
       /\ \A m : Retired(db, m) => Retired(e, m)
       /\ \A m : m # n => (Retired(e, m) <=> Retired(db, m))
       /\ \A g : Listed(e, g) <=> Listed(db, g)
       /\ \A v, g : IsOf(e, v, g) <=> IsOf(db, v, g)
  BY <1>2, <1>10 DEF Kept, Named, Retired, Listed, IsOf
<1>12. /\ \A g : pkFunc(g) \in DOMAIN e <=> pkFunc(g) \in DOMAIN db
       /\ \A g : pkFunc(g) \in DOMAIN db => e[pkFunc(g)] = db[pkFunc(g)]
  BY <1>10 DEF Kept
<1>13. FnsOK(e)
  <2>1. ASSUME NEW g \in Fns, pkFunc(g) \in DOMAIN e
        PROVE  /\ Retired(e, NameOf[g]) \/ Listed(e, g)
               /\ e[pkFunc(g)].active # Nil => IsOf(e, e[pkFunc(g)].active, g)
    BY <1>11, <1>12, <2>1 DEF FnsOK, StoreInv
  <2>2. ASSUME NEW m \in Names, Named(e, m), ~Retired(e, m)
        PROVE  \E g \in Fns : /\ e[pkFuncName(m)] = Claim(g)
                              /\ NameOf[g] = m
                              /\ pkFunc(g) \in DOMAIN e
    <3>1. CASE m = n
      BY <1>4, <1>9, <1>12, <3>1
    <3>2. CASE m # n
      <4>1. Named(db, m) /\ ~Retired(db, m) /\ e[pkFuncName(m)] = db[pkFuncName(m)]
        BY <1>11, <2>2, <3>2
      <4> QED BY <1>12, <4>1 DEF FnsOK, StoreInv
    <3> QED BY <3>1, <3>2
  <2> QED BY <2>1, <2>2 DEF FnsOK
<1>14. GivenOut(e, born, settled)
  BY <1>12 DEF GivenOut, StoreInv
<1>15. CountInv' /\ extra' \in [Scopes -> Nat] /\ mig' \in Users \cup {Nil} /\ phase' \in Phases
  BY <1>2 DEF CountInv, StoreInv, TypeInv, Phases
<1> QED BY <1>2, <1>5, <1>7, <1>10, <1>13, <1>14, <1>15, MigrateKeeps

\* The statements of a migration on public ids and users.
LEMMA UserBackfill ==
    ASSUME StoreInv,
           \/ \E h \in Handles : RemoveLegacyHandle(h)
           \/ \E u \in Users : MigrateRow(u)
           \/ MigratePointer \/ MigrateUnlink
    PROVE  Right
<1> USE DEF server, Has
<1>1. ASSUME NEW h \in Handles, RemoveLegacyHandle(h) PROVE Right
  <2>1. Plain(db, born, Without(db, {pkHandle(h)}))
    BY PlainHere, PlainWithout, KeyFacts
  <2>2. Plain(db, born, db')
    BY <1>1, <2>1 DEF RemoveLegacyHandle
  <2> QED BY <1>1, <2>2, MigratePlain DEF RemoveLegacyHandle, ghosts, StoreInv, TypeInv, Phases
<1>2. ASSUME NEW u \in Users, MigrateRow(u) PROVE Right
  <2> DEFINE x == [db[pkUser(u)] EXCEPT !.subject = GoogleSub[u]]
  <2>1. pkUser(u) \in DOMAIN db /\ db[pkUser(u)].subject = Nil
    <3>1. PICK k \in RowsOf("USER") : k[2] = u /\ db[k].subject = Nil
      BY <1>2 DEF MigrateRow, Unmigrated
    <3>2. PICK w \in Users : k = pkUser(w)
      BY <3>1 DEF RowsOf, StoreInv, TypeInv, TableOK, KeyOK
    <3> QED BY <3>1, <3>2, KeyFacts DEF RowsOf
  <2>2. db' = Put(db, pkUser(u), x)
    BY <1>2, <2>1, UpdateIsPut DEF MigrateRow
  <2>3. db[pkUser(u)] \in UserRow /\ u \in OldUsers
    BY <2>1, TableHas DEF StoreInv, TypeInv
  <2>4. x \in UserRow /\ x.subject # Nil
    BY <2>3, LegacyAssumption, NilAssumption DEF UserRow
  <2> HIDE DEF x
  <2>5. KeyOK(pkUser(u)) /\ ItemOK(pkUser(u), x)
    BY <2>4, ShapedKeys
  <2>6. Lock \in DOMAIN db
    BY <2>1, KeyFacts DEF StoreInv, LockOK
  <2>7. Plain(db, born, db')
    BY <2>2, <2>5, <2>6, PlainHere, PlainPut, KeyFacts
  <2> QED BY <1>2, <2>6, <2>7, MigratePlain DEF MigrateRow, ghosts, Phases
<1>3. ASSUME MigratePointer PROVE Right
  <2> DEFINE k == pkUserProviderSubject(GoogleSub[mig])
  <2>1. Lock \in DOMAIN db
    BY <1>3 DEF MigratePointer, StoreInv, PhaseInv
  <2>2. Plain(db, born, db')
    <3>1. CASE k \in DOMAIN db
      BY <1>3, <3>1, PlainHere DEF MigratePointer
    <3>2. CASE k \notin DOMAIN db
      <4>1. KeyOK(k) /\ ItemOK(k, mig)
        BY PlainKeys, KeyFacts
      <4>2. Plain(db, born, Put(db, k, mig))
        BY <2>1, <3>2, <4>1, PlainHere, PlainPut, KeyFacts
      <4> QED BY <1>3, <3>2, <4>2 DEF MigratePointer
    <3> QED BY <3>1, <3>2
  <2> QED BY <1>3, <2>1, <2>2, MigratePlain DEF MigratePointer, ghosts, StoreInv, TypeInv, Phases
<1>4. ASSUME MigrateUnlink PROVE Right
  <2>1. Plain(db, born, Without(db, {pkUserSubLegacy(GoogleSub[mig])}))
    BY PlainHere, PlainWithout, KeyFacts
  <2>2. Plain(db, born, db')
    BY <1>4, <2>1 DEF MigrateUnlink
  <2> QED BY <1>4, <2>2, MigratePlain DEF MigrateUnlink, ghosts, Phases
<1> QED BY <1>1, <1>2, <1>3, <1>4

\* The statements of a migration on functions and counters.
LEMMA FnBackfill ==
    ASSUME StoreInv,
           \/ \E f \in Fns : BackfillCreator(f)
           \/ \E s \in Scopes : BackfillCount(s)
    PROVE  Right
<1> USE DEF server, Has
<1>1. ASSUME NEW f \in Fns, BackfillCreator(f) PROVE Right
  <2> DEFINE x == [db[pkFunc(f)] EXCEPT !.creator = CreatorOf[f]]
  <2>1. pkFunc(f) \in DOMAIN db
    <3>1. PICK k \in RowsOf("FUNC") : k[2] = f
      BY <1>1 DEF BackfillCreator, Uncredited
    <3>2. PICK g \in Fns : k = pkFunc(g)
      BY <3>1 DEF RowsOf, StoreInv, TypeInv, TableOK, KeyOK
    <3> QED BY <3>1, <3>2, KeyFacts DEF RowsOf
  <2>2. db' = Put(db, pkFunc(f), x)
    BY <1>1, <2>1, UpdateIsPut DEF BackfillCreator
  <2>3. db[pkFunc(f)] \in FnRow(f)
    BY <2>1, TableHas DEF StoreInv, TypeInv
  <2>4. x \in FnRow(f) /\ x.active = db[pkFunc(f)].active
    BY <2>3 DEF FnRow, Creators
  <2> HIDE DEF x
  <2>5. x.active # Nil => IsOf(db, x.active, f)
    BY <2>1, <2>4 DEF StoreInv, FnsOK
  <2>6. /\ TableOK(db') /\ LockOK(db') /\ FnsOK(db') /\ Lasting(db, born, db')
        /\ IdKept(db, db')
        /\ \A g : pkFunc(g) \in DOMAIN db' <=> pkFunc(g) \in DOMAIN db
        /\ \A n : Named(db', n) <=> Named(db, n)
    BY <2>1, <2>2, <2>4, <2>5, RowPut DEF StoreInv, TypeInv
  <2>7. GivenOut(db', born, settled)
    BY <2>6 DEF StoreInv, GivenOut
  <2>8. /\ phase = "creators" /\ phase' = phase /\ mig' = mig
        /\ UNCHANGED <<loc, reg, crashes, born, settled, extra, minted, won>>
    BY <1>1 DEF BackfillCreator, ghosts
  <2>9. \A g \in Fns : pkFunc(g) \in DOMAIN db' => Named(db', NameOf[g])
    BY <2>6, <2>8 DEF StoreInv, PhaseInv
  <2>10. CountInv' /\ extra' \in [Scopes -> Nat] /\ mig' \in Users \cup {Nil} /\ phase' \in Phases
    BY <2>8 DEF CountInv, StoreInv, TypeInv
  <2> QED BY <2>6, <2>7, <2>8, <2>9, <2>10, MigrateKeeps
<1>2. ASSUME NEW s \in Scopes, BackfillCount(s) PROVE Right
  <2> DEFINE e == Put(db, pkFuncCount(s), Counted(s))
  <2>1. db' = e
    BY <1>2 DEF BackfillCount
  <2>2. Counted(s) \in Int
    BY CountedRows DEF StoreInv, TypeInv
  <2>3. TableOK(e) /\ LockOK(e) /\ Lasting(db, born, e)
    <3>1. KeyOK(pkFuncCount(s)) /\ ItemOK(pkFuncCount(s), Counted(s))
      BY <2>2, ShapedKeys
    <3>2. TableOK(e) /\ LockOK(e)
      BY <3>1, TablePut, LockPut, KeyFacts DEF StoreInv, TypeInv
    <3>3. Lasting(db, born, e)
      BY LastingSelf, LastingPut, KeyFacts
    <3> QED BY <3>2, <3>3
  <2>4. \A j : j # pkFuncCount(s) => Kept(db, e, j)
    BY DEF Kept, Put
  <2> HIDE DEF e
  <2>5. pkFuncCount(s)[1] = "COUNT"
    BY KeyFacts
  <2>6. FnKept(db, e)
    BY <2>4, <2>5 DEF FnKept, IsFnKey
  <2>7. IdKept(db, e)
    BY <2>4, <2>5, KeyFacts DEF IdKept
  <2>8. /\ FnsOK(e) /\ GivenOut(e, born, settled)
        /\ \A g : pkFunc(g) \in DOMAIN e <=> pkFunc(g) \in DOMAIN db
        /\ \A n : Named(e, n) <=> Named(db, n)
    BY <2>6, FnFrame DEF StoreInv
  <2>9. /\ phase = "counts" /\ phase' = phase /\ mig' = mig
        /\ UNCHANGED <<loc, reg, crashes, born, settled, extra, minted, won>>
    BY <1>2 DEF BackfillCount, ghosts
  <2>10. \A g \in Fns : pkFunc(g) \in DOMAIN db' => Named(db', NameOf[g])
    BY <2>1, <2>8, <2>9 DEF StoreInv, PhaseInv
  <2>11. CountInv' /\ extra' \in [Scopes -> Nat] /\ mig' \in Users \cup {Nil} /\ phase' \in Phases
    BY <2>9 DEF CountInv, StoreInv, TypeInv
  <2> QED BY <2>1, <2>3, <2>7, <2>8, <2>9, <2>10, <2>11, MigrateKeeps
<1> QED BY <1>1, <1>2

\* When no counter is wrong, they say what there is.
LEMMA CountsHealed ==
    ASSUME TableOK(db), Miscounted = {}, NEW s \in Scopes
    PROVE  CountIn(s) = Counted(s)
<1>1. Counted(s) \in Nat
  BY CountedRows
<1> QED BY <1>1 DEF Miscounted, CountIn, Has

\* Migrate goes on when a part of it has nothing left to do.
LEMMA PhaseKeeps ==
    ASSUME StoreInv, NextPhase
    PROVE  Right
<1> USE DEF server, Has
<1>1. /\ UNCHANGED <<db, mig, loc, reg, crashes, born, settled, minted, won>>
      /\ phase # "serving" /\ phase' \in Phases \ {"names", "pointer", "unlink"}
  BY DEF NextPhase, Phases
<1>2. ASSUME NEW f \in Fns, pkFunc(f) \in DOMAIN db PROVE Named(db, NameOf[f])
  <2>1. CASE phase = "names"
    <3>1. Unclaimed = {}
      BY <2>1 DEF NextPhase
    <3>2. pkFunc(f) \in RowsOf("FUNC") /\ db[pkFunc(f)].name = NameOf[f]
      BY <1>2, RowLoaded, KeyFacts DEF RowsOf
    <3> QED BY <3>1, <3>2 DEF Unclaimed, Named
  <2>2. CASE phase # "names"
    BY <1>2, <2>2 DEF StoreInv, PhaseInv
  <2> QED BY <2>1, <2>2
<1>3. extra' \in [Scopes -> Nat]
  BY DEF NextPhase, StoreInv, TypeInv
<1>4. CountInv'
  <2> SUFFICES ASSUME phase' = "serving", NEW s \in Scopes
               PROVE  (CountIn(s) + extra[s] >= Cardinality(Owed(s)))'
    BY DEF CountInv
  <2>1. Miscounted = {} /\ extra' = [t \in Scopes |-> 0]
    BY DEF NextPhase
  <2>2. CountIn(s) = Cardinality(Owed(s)) /\ Cardinality(Owed(s)) \in Nat
    BY <1>1, <2>1, AllOver, CountsHealed, CountedRows DEF StoreInv, TypeInv
  <2>3. CountIn(s)' = CountIn(s)
    BY <1>1 DEF CountIn
  <2>4. Owed(s)' = Owed(s)
    BY <1>1 DEF Owed, OwedFn, Reg, reg
  <2>5. extra'[s] = 0
    BY <2>1
  <2> HIDE DEF Owed
  <2>6. Cardinality(Owed(s)') = Cardinality(Owed(s))
    BY <2>4
  <2> QED BY <2>2, <2>3, <2>5, <2>6
<1>5. /\ TableOK(db') /\ LockOK(db') /\ Lasting(db, born, db') /\ IdKept(db, db')
      /\ FnsOK(db') /\ GivenOut(db', born, settled)
  BY <1>1, LastingSelf DEF IdKept, Kept, StoreInv, TypeInv
<1>6. mig' \in Users \cup {Nil} /\ phase' \in Phases
  BY <1>1 DEF StoreInv, TypeInv
<1> QED BY <1>1, <1>2, <1>3, <1>4, <1>5, <1>6, MigrateKeeps

\* A crash ends every call and leaves the table.
LEMMA CrashKeeps ==
    ASSUME StoreInv, Crash
    PROVE  Right
<1>1. /\ UNCHANGED <<db, op, arg, got, todo, born, settled, extra, minted, won>>
      /\ phase' = "names" /\ mig' = Nil
      /\ \A c \in Calls : loc'[c] \in Over /\ (loc'[c] = "start" => loc[c] = "start")
  BY DEF Crash, reg, Over
<1>2. loc' \in [Calls -> Places] /\ crashes' \in 0 .. MaxCrashes
  BY FinitenessAssumption DEF Crash, StoreInv, TypeInv, Places, Over
<1>3. TypeInv'
  BY <1>1, <1>2 DEF StoreInv, TypeInv, Phases
<1>4. PhaseInv' /\ MintInv' /\ CountInv'
  BY <1>1 DEF StoreInv, PhaseInv, MintInv, CountInv, Over
<1>5. \A c \in Calls : RegOK(db', born', Reg(c)')
  BY <1>1, OverReg, RegPartsNext
<1>6. IdKept(db, db') /\ Lasting(db, born, db')
  BY <1>1, LastingSelf DEF IdKept, Kept
<1>7. UNCHANGED Secrets!vars
  BY <1>1, <1>3, <1>6, SecretStutter DEF StoreInv, TypeInv
<1> QED BY <1>1, <1>3, <1>4, <1>5, <1>6, <1>7 DEF StoreInv, Right

-----------------------------------------------------------------------------
(***************************************************************************)
(* The start.                                                              *)
(***************************************************************************)

\* What a table holds that was written before claims, counters, creators and
\* provider subjects existed.
LEMMA OldTableHas ==
    /\ \A k \in DOMAIN OldTable :
         \/ \E f \in Legacy : k \in {pkFunc(f), pkFuncPtr(OwnerOf[f], NameOf[f]),
                                     pkFuncList(OwnerOf[f], f)}
         \/ \E u \in OldUsers : k \in {Lock, pkUser(u), pkUserSubLegacy(GoogleSub[u])}
         \/ \E h \in OldHandles : k = pkHandle(h)
    /\ \A f \in Legacy : /\ pkFuncPtr(OwnerOf[f], NameOf[f]) \in DOMAIN OldTable
                         /\ OldTable[pkFuncPtr(OwnerOf[f], NameOf[f])] = f
                         /\ pkFuncList(OwnerOf[f], f) \in DOMAIN OldTable
    /\ \A u \in OldUsers : Lock \in DOMAIN OldTable
    /\ \A k \in DOMAIN OldTable :
         /\ k[1] = "FUNC" => OldTable[k] = Item(k[2], Nil, Nil)
         /\ k[1] = "USER" => OldTable[k] = [id |-> k[2], subject |-> Nil, role |-> "member"]
<1> DEFINE keysOf(f) == {pkFunc(f), pkFuncPtr(OwnerOf[f], NameOf[f]), pkFuncList(OwnerOf[f], f)}
           keys == (UNION {keysOf(f) : f \in Legacy})
                   \cup (UNION {{Lock, pkUser(u), pkUserSubLegacy(GoogleSub[u])} : u \in OldUsers})
                   \cup {pkHandle(h) : h \in OldHandles}
           fnOf(k) == CHOOSE f \in Legacy : k \in keysOf(f)
           value(k) ==
             CASE k[1] = "FUNC" -> Item(k[2], Nil, Nil)
               [] k[1] \in {"PTR", "LIST"} -> fnOf(k)
               [] k[1] = "USER" -> [id |-> k[2], subject |-> Nil, role |-> "member"]
               [] k[1] = "HANDLE" -> WorkspaceHandle
               [] k[1] = "SUB" -> CHOOSE u \in OldUsers : GoogleSub[u] = k[2]
               [] OTHER -> Nil
<1>1. OldTable = [k \in keys |-> value(k)]
  BY DEF OldTable
<1>2. DOMAIN OldTable = keys /\ \A k \in keys : OldTable[k] = value(k)
  BY <1>1
<1>3. \A k \in keys :
         \/ \E f \in Legacy : k \in keysOf(f)
         \/ \E u \in OldUsers : k \in {Lock, pkUser(u), pkUserSubLegacy(GoogleSub[u])}
         \/ \E h \in OldHandles : k = pkHandle(h)
  OBVIOUS
<1>4. ASSUME NEW f \in Legacy
      PROVE  /\ pkFuncPtr(OwnerOf[f], NameOf[f]) \in keys /\ pkFuncList(OwnerOf[f], f) \in keys
             /\ fnOf(pkFuncPtr(OwnerOf[f], NameOf[f])) = f
  <2> DEFINE p == pkFuncPtr(OwnerOf[f], NameOf[f])
  <2>1. p \in keysOf(f) /\ pkFuncList(OwnerOf[f], f) \in keysOf(f)
    OBVIOUS
  <2>2. \A g \in Legacy : p \in keysOf(g) => OwnerOf[g] = OwnerOf[f] /\ NameOf[g] = NameOf[f]
    BY KeyFacts
  <2>3. \A g \in Legacy : p \in keysOf(g) => g = f
    BY <2>2, LegacyAssumption
  <2> HIDE DEF keysOf
  <2>4. fnOf(p) = f
    BY <2>1, <2>3
  <2> QED BY <2>1, <2>4
<1>5. \A u \in OldUsers : Lock \in keys
  OBVIOUS
<1>6. \A f \in Legacy : value(pkFuncPtr(OwnerOf[f], NameOf[f])) = fnOf(pkFuncPtr(OwnerOf[f], NameOf[f]))
  BY KeyFacts
<1>7. /\ \A k : k[1] = "FUNC" => value(k) = Item(k[2], Nil, Nil)
      /\ \A k : k[1] = "USER" => value(k) = [id |-> k[2], subject |-> Nil, role |-> "member"]
  OBVIOUS
<1> HIDE DEF keys, value, fnOf
<1> QED BY <1>2, <1>3, <1>4, <1>5, <1>6, <1>7

\* What the invariant says of both tables.
LEMMA TablesStart ==
    ASSUME NEW d \in {OldTable, NewTable}
    PROVE  /\ TableOK(d) /\ LockOK(d) /\ FnsOK(d)
           /\ \A g : pkOAuthGrantID(g) \notin DOMAIN d
<1>1. CASE d = NewTable
  <2>1. DOMAIN d = {}
    BY <1>1 DEF NewTable
  <2> QED BY <2>1 DEF TableOK, LockOK, FnsOK, Named
<1>2. CASE d = OldTable
  <2>1. \A k \in DOMAIN d : k[1] \in {"FUNC", "PTR", "LIST", "ORG", "USER", "SUB", "HANDLE"}
    BY <1>2, OldTableHas, KeyFacts
  <2>2. ASSUME NEW k \in DOMAIN d, k[1] = "FUNC" PROVE \E f \in Legacy : k = pkFunc(f)
    BY <1>2, <2>2, OldTableHas, KeyFacts
  <2>3. ASSUME NEW k \in DOMAIN d, k[1] = "USER" PROVE \E u \in OldUsers : k = pkUser(u)
    BY <1>2, <2>3, OldTableHas, KeyFacts
  <2>4. TableOK(d)
    <3> SUFFICES ASSUME NEW k \in DOMAIN d PROVE KeyOK(k) /\ ItemOK(k, d[k])
      BY DEF TableOK
    <3>1. CASE k[1] = "FUNC"
      <4>1. PICK f \in Legacy : k = pkFunc(f)
        BY <2>2, <3>1
      <4>2. d[k] = Item(f, Nil, Nil)
        BY <1>2, <3>1, <4>1, OldTableHas, KeyFacts
      <4>3. f \in Fns /\ Item(f, Nil, Nil) \in FnRow(f)
        BY LegacyAssumption DEF Item, FnRow, Creators
      <4> QED BY <4>1, <4>2, <4>3, ShapedKeys
    <3>2. CASE k[1] = "USER"
      <4>1. PICK u \in OldUsers : k = pkUser(u)
        BY <2>3, <3>2
      <4>2. d[k] = [id |-> u, subject |-> Nil, role |-> "member"]
        BY <1>2, <3>2, <4>1, OldTableHas, KeyFacts
      <4>3. u \in Users /\ d[k] \in UserRow
        BY <4>2, LegacyAssumption DEF UserRow
      <4> QED BY <4>1, <4>3, ShapedKeys
    <3>3. CASE k[1] \in {"PTR", "LIST", "ORG", "SUB", "HANDLE"}
      BY <3>3, PlainKeys
    <3> QED BY <2>1, <3>1, <3>2, <3>3
  <2>5. LockOK(d)
    BY <1>2, <2>1, <2>3, OldTableHas DEF LockOK
  <2>6. FnsOK(d)
    <3>1. \A n : ~Named(d, n)
      BY <2>1, KeyFacts DEF Named
    <3>2. ASSUME NEW f \in Fns, pkFunc(f) \in DOMAIN d
          PROVE  Listed(d, f) /\ d[pkFunc(f)].active = Nil
      <4>1. f \in Legacy
        BY <2>2, <3>2, KeyFacts
      <4>2. d[pkFunc(f)] = Item(f, Nil, Nil)
        BY <1>2, <3>2, OldTableHas, KeyFacts
      <4> QED BY <1>2, <4>1, <4>2, OldTableHas DEF Listed, Item
    <3> QED BY <3>1, <3>2 DEF FnsOK
  <2>7. \A g : pkOAuthGrantID(g) \notin DOMAIN d
    BY <2>1, KeyFacts
  <2> QED BY <2>4, <2>5, <2>6, <2>7
<1> QED BY <1>1, <1>2

\* The server starts right.
LEMMA InitInv ==
    ASSUME StoreInit
    PROVE  StoreInv
<1>1. PICK ops \in [Calls -> Ops], table \in {OldTable, NewTable} : InitWith(ops, table)
  BY DEF StoreInit
<1>2. /\ TableOK(db) /\ LockOK(db) /\ FnsOK(db)
      /\ \A g : pkOAuthGrantID(g) \notin DOMAIN db
  BY <1>1, TablesStart DEF InitWith
<1>3. \A c \in Calls : loc[c] = "start" /\ won[c] = Nil
  BY <1>1 DEF InitWith
<1>4. TypeInv
  BY <1>1, <1>2, FinitenessAssumption DEF InitWith, TypeInv, Phases, Places, Over
<1>5. PhaseInv /\ MintInv /\ CountInv
  BY <1>1, <1>3 DEF InitWith, PhaseInv, MintInv, CountInv, Over
<1>6. GivenOut(db, born, settled)
  BY <1>1, KeyFacts DEF InitWith, GivenOut
<1>7. SecretsOK(db, minted, won)
  BY <1>2, <1>3 DEF SecretsOK
<1>8. \A c \in Calls : RegOK(db, born, Reg(c))
  BY <1>3, OverReg, RegParts DEF Over
<1> QED BY <1>2, <1>4, <1>5, <1>6, <1>7, <1>8 DEF StoreInv

\* No secret is there at the start.
LEMMA InitSecrets ==
    ASSUME StoreInit
    PROVE  Secrets!Init
<1>1. PICK ops \in [Calls -> Ops], table \in {OldTable, NewTable} : InitWith(ops, table)
  BY DEF StoreInit
<1>2. TableOK(db) /\ \A g : pkOAuthGrantID(g) \notin DOMAIN db
  BY <1>1, TablesStart DEF InitWith
<1>3. InForce = {}
  BY <1>2, InForceKeys
<1>4. minted = {} /\ \A c \in Calls : won[c] = Nil
  BY <1>1 DEF InitWith
<1>5. [h \in Calls |-> {c \in Calls : won[c] = h}] = [h \in Calls |-> {}]
  BY <1>4, NilAssumption
<1> QED BY <1>3, <1>4, <1>5 DEF Secrets!Init, InForce

-----------------------------------------------------------------------------
(***************************************************************************)
(* Every step.                                                             *)
(***************************************************************************)

\* The steps of a migration.
LEMMA MigrateRight ==
    ASSUME StoreInv, Migrate
    PROVE  Right
BY NameBackfill, UserBackfill, FnBackfill, PhaseKeeps DEF Migrate

\* The steps of a call on functions.
LEMMA FunctionsRight ==
    ASSUME StoreInv, NEW c \in Calls, Functions(c)
    PROVE  Right
<1>1. ASSUME NEW f \in Fns, Create(c, f) \/ UpdateRead(c, f) \/ DeleteRead(c, f) \/ SetEnv(c, f)
      PROVE  Right
  BY <1>1, CreateWrites, RowReads, SingleWrites
<1>2. ASSUME NEW f \in Fns, NEW v \in Vers, CreateVersion(c, f, v) \/ ActivateCheck(c, f, v)
      PROVE  Right
  BY <1>2, VersionWrites, LooksKeep
<1>3. ASSUME UpdatePut(c) \/ Activate(c) PROVE Right
  BY <1>3, RowWrites
<1>4. ASSUME DeleteTombstone(c) PROVE Right
  BY <1>4, TombstoneWrites
<1>5. ASSUME DeleteQuery(c) PROVE Right
  BY <1>5, QueryKeeps
<1>6. ASSUME BatchDelete(c) PROVE Right
  BY <1>6, BatchWrites
<1>7. ASSUME DeleteCount(c) PROVE Right
  BY <1>7, CountWrites
<1> QED BY <1>1, <1>2, <1>3, <1>4, <1>5, <1>6, <1>7 DEF Functions

\* The steps of a call on users and their public ids.
LEMMA AccountsRight ==
    ASSUME StoreInv, NEW c \in Calls, Accounts(c)
    PROVE  Right
<1>1. ASSUME NEW u \in Users, NEW s \in Subjects,
             BootstrapFirstUser(c, u, s) \/ CreateUser(c, u, s) \/ UpdateUserRead(c, u, s)
      PROVE  Right
  BY <1>1, UserWrites, LooksKeep
<1>2. ASSUME (\E h \in Handles, u \in Users : CreateHandle(c, h, u)) \/ Rename(c) PROVE Right
  BY <1>2, HandleWrites
<1>3. ASSUME \E old, new \in Handles : RenameRead(c, old, new) PROVE Right
  BY <1>3, LooksKeep
<1>4. ASSUME UpdateUserPut(c) PROVE Right
  BY <1>4, UserPuts
<1> QED BY <1>1, <1>2, <1>3, <1>4 DEF Accounts

\* The steps of a call on workspaces, and on grants.
LEMMA OthersRight ==
    ASSUME StoreInv, NEW c \in Calls, WorkspaceCalls(c) \/ GrantCalls(c)
    PROVE  Right
<1>1. ASSUME WorkspaceCalls(c) PROVE Right
  BY <1>1, WorkspaceWrites, BatchReads DEF WorkspaceCalls
<1>2. ASSUME GrantCalls(c) PROVE Right
  BY <1>2, GrantWrites, RotatePutWrites, GrantReads, BatchReads, SingleWrites DEF GrantCalls
<1> QED BY <1>1, <1>2

\* Every step is right.
LEMMA NextRight ==
    ASSUME StoreInv, StoreNext
    PROVE  Right
<1>1. ASSUME NEW c \in Calls, StatementFails(c) PROVE Right
  <2>1. phase = "serving"
    BY <1>1, AllOver DEF StatementFails
  <2> QED BY <1>1, <2>1, FailKeeps
<1> QED BY <1>1, MigrateRight, CrashKeeps, FunctionsRight, AccountsRight, OthersRight DEF StoreNext

\* And so is no step at all.
LEMMA StutterRight ==
    ASSUME StoreInv, UNCHANGED storeVars
    PROVE  Right
<1> USE DEF storeVars, server, reg, ghosts
<1>1. StoreInv'
  BY DEF StoreInv, TypeInv, PhaseInv, MintInv, CountInv, CountIn, Has, Owed, OwedFn, Reg
<1>2. Lasting(db, born, db')
  BY LastingSelf
<1>3. UNCHANGED Secrets!vars
  BY SecretStutter DEF IdKept, Kept, StoreInv, TypeInv
<1> QED BY <1>1, <1>2, <1>3 DEF Right

-----------------------------------------------------------------------------
(***************************************************************************)
(* The theorems.                                                           *)
(***************************************************************************)

\* The invariant holds, whatever calls fail half-way and however often the
\* server crashes and migrates again.
THEOREM StoreInductive == StoreSpec => []StoreInv
<1>1. StoreInit => StoreInv
  BY InitInv
<1>2. StoreInv /\ [StoreNext]_storeVars => StoreInv'
  BY NextRight, StutterRight DEF Right
<1> QED BY <1>1, <1>2, PTL DEF StoreSpec

\* Every item has the shape its key says (ItemOK in the invariant; helpers.go).
THEOREM StoreTypeCorrect == StoreSpec => []StoreTypeOK
<1>1. StoreInv => StoreTypeOK
  <2> SUFFICES ASSUME StoreInv PROVE StoreTypeOK
    OBVIOUS
  <2>1. ASSUME NEW k \in DOMAIN db
        PROVE  /\ k[1] = "NAME" => db[k] \in [fn : Fns, state : {"active", "tombstoned"}]
               /\ k \in RowsOf("FUNC") => db[k] \in [id : Fns, owner : {OwnerOf[f] : f \in Fns},
                       name : {NameOf[f] : f \in Fns}, active : Vers \cup {Nil},
                       creator : {CreatorOf[f] : f \in Fns} \cup {Nil}]
               /\ k[1] = "COUNT" => db[k] \in Int
               /\ k[1] = "USER" => db[k] \in [id : Users, subject : Subjects \cup {Nil},
                                              role : {"admin", "member"}]
               /\ k[1] = "GRANT" => db[k] \in [id : Grants, prev : Calls \cup {Nil}]
               /\ k[1] = "GRANTID" => db[k] \in Calls
    <3>1. KeyOK(k) /\ ItemOK(k, db[k])
      BY DEF StoreInv, TypeInv, TableOK
    <3>2. ASSUME k \in RowsOf("FUNC")
          PROVE  db[k] \in [id : Fns, owner : {OwnerOf[f] : f \in Fns},
                       name : {NameOf[f] : f \in Fns}, active : Vers \cup {Nil},
                       creator : {CreatorOf[f] : f \in Fns} \cup {Nil}]
      <4>1. PICK f \in Fns : k = pkFunc(f)
        BY <3>1, <3>2 DEF RowsOf, KeyOK
      <4>2. db[k] \in FnRow(f)
        BY <3>1, <4>1, KeyFacts DEF ItemOK
      <4> QED BY <4>2 DEF FnRow, Creators
    <3> QED BY <3>1, <3>2 DEF ItemOK, NameClaim, UserRow, GrantItem
  <2>2. phase \in Phases /\ mig \in Users \cup {Nil} /\ crashes \in 0 .. MaxCrashes
        /\ minted \subseteq Calls
    BY DEF StoreInv, TypeInv
  <2> QED BY <2>1, <2>2 DEF StoreTypeOK, Phases
<1> QED BY <1>1, StoreInductive, PTL

\* Whatever calls fail half-way and however the server crashes, a function that
\* still holds its name is whole, and the version it runs exists and is its own
\* (Delete retires the name first; functions.go).
THEOREM NamedFunctionsAreWhole == StoreSpec => []WholeWhileNamed
<1>1. StoreInv => WholeWhileNamed
  <2> SUFFICES ASSUME StoreInv, NEW n \in Names, Has(pkFuncName(n)),
                      db[pkFuncName(n)].state = "active"
               PROVE  LET f == ByName(n) IN
                      /\ f # Nil
                      /\ db[pkFunc(f)].name = n
                      /\ ByOwnerAndName(OwnerOf[f], n) = f
                      /\ f \in ListByOwner(OwnerOf[f])
                      /\ db[pkFunc(f)].active # Nil => Version(db[pkFunc(f)].active) = f
    BY DEF WholeWhileNamed, Names
  <2> USE DEF Has
  <2>1. Named(db, n) /\ ~Retired(db, n)
    BY DEF Named, Retired
  <2>2. PICK f \in Fns : db[pkFuncName(n)] = Claim(f) /\ NameOf[f] = n /\ pkFunc(f) \in DOMAIN db
    BY <2>1 DEF StoreInv, FnsOK
  <2>3. ByName(n) = f /\ f # Nil
    BY <2>2, NilAssumption DEF ByName, ByID, Claim
  <2>4. db[pkFunc(f)].name = n
    BY <2>2, RowLoaded
  <2>5. Listed(db, f) /\ (db[pkFunc(f)].active # Nil => IsOf(db, db[pkFunc(f)].active, f))
    BY <2>1, <2>2 DEF StoreInv, FnsOK
  <2>6. ByOwnerAndName(OwnerOf[f], n) = f
    BY <2>2, <2>5 DEF Listed, ByOwnerAndName, ByID
  <2>7. f \in ListByOwner(OwnerOf[f])
    BY <2>2, <2>3, <2>5 DEF Listed, ListByOwner, ByID
  <2>8. db[pkFunc(f)].active # Nil => Version(db[pkFunc(f)].active) = f
    BY <2>5 DEF IsOf, Version
  <2> QED BY <2>3, <2>4, <2>6, <2>7, <2>8
<1> QED BY <1>1, StoreInductive, PTL

\* While the server serves, no counter is below what is there by more than the
\* deletions that were counted twice (CreateWithinLimit and Delete count in
\* statements of their own; functions.go).
THEOREM CountersCover == StoreSpec => []CounterCovers
<1>1. StoreInv => CounterCovers
  <2> SUFFICES ASSUME StoreInv, phase = "serving", NEW s \in Scopes
               PROVE  CountIn(s) + extra[s] >= Counted(s)
    BY DEF CounterCovers
  <2>1. CountIn(s) + extra[s] >= Cardinality(Owed(s))
    BY DEF StoreInv, CountInv
  <2>2. Counted(s) <= Cardinality(Owed(s)) /\ Counted(s) \in Nat
    BY CountedRows DEF StoreInv, TypeInv
  <2>3. CountIn(s) \in Int /\ extra[s] \in Nat /\ Cardinality(Owed(s)) \in Nat
    BY CountInInt, OwedFinite DEF StoreInv, TypeInv
  <2> QED BY <2>1, <2>2, <2>3
<1> QED BY <1>1, StoreInductive, PTL

\* The only step that ends a migration is the one that finds no counter wrong.
LEMMA ServingBegins ==
    ASSUME StoreInv, StoreNext, phase # "serving", phase' = "serving"
    PROVE  Miscounted = {} /\ UNCHANGED db
<1>1. ASSUME NEW c \in Calls, Functions(c) \/ Accounts(c) \/ WorkspaceCalls(c) \/ GrantCalls(c)
      PROVE  FALSE
  <2>1. Functions(c) => phase = "serving"
    BY DEF Functions, Create, UpdateRead, DeleteRead, SetEnv, CreateVersion, ActivateCheck, UpdatePut,
           DeleteTombstone, DeleteQuery, BatchDelete, DeleteCount, Activate, Called, At
  <2>2. Accounts(c) => phase = "serving"
    BY DEF Accounts, BootstrapFirstUser, CreateUser, UpdateUserRead, CreateHandle, RenameRead,
           UpdateUserPut, Rename, Called, At
  <2>3. WorkspaceCalls(c) => phase = "serving"
    BY DEF WorkspaceCalls, CreateWorkspace, AddMember, UpdateWorkspace, DeleteWorkspace, Called
  <2>4. GrantCalls(c) => phase = "serving"
    BY DEF GrantCalls, CreateGrant, DeleteGrant, RotateRead, RevokeIfPrevious, RotatePut,
           DeleteGrantPointer, DeleteGrantPrev, RevokeUnlink, Called, At
  <2> QED BY <1>1, <2>1, <2>2, <2>3, <2>4
<1>2. ASSUME NEW c \in Calls, StatementFails(c) PROVE FALSE
  BY <1>2, AllOver DEF StatementFails
<1>3. ~Crash
  BY DEF Crash
<1>4. Migrate
  BY <1>1, <1>2, <1>3 DEF StoreNext
<1>5. NextPhase
  BY <1>4 DEF Migrate, BackfillName, RemoveLegacyHandle, MigrateRow, MigratePointer, MigrateUnlink,
              BackfillCreator, BackfillCount, server
<1> QED BY <1>5 DEF NextPhase

\* When the server serves again after any number of stops in the middle of a
\* migration, the counters are exact (backfillFunctionCounts; migrate.go).
THEOREM MigrationsHeal == StoreSpec => MigrateHeals
<1>1. StoreInv /\ [StoreNext]_storeVars =>
        [phase # "serving" /\ phase' = "serving" => \A s \in Scopes : CountIn(s) = Counted(s)]_storeVars
  <2> SUFFICES ASSUME StoreInv, StoreNext, phase # "serving", phase' = "serving", NEW s \in Scopes
               PROVE  CountIn(s) = Counted(s)
    OBVIOUS
  <2>1. Miscounted = {}
    BY ServingBegins
  <2> QED BY <2>1, CountsHealed DEF StoreInv, TypeInv
<1> QED BY <1>1, StoreInductive, PTL DEF StoreSpec, MigrateHeals

\* No step gives a name, a subject or a public id to another in place, takes a
\* retired name back, or brings back a function or a workspace that is gone
\* (the conditions of the puts; helpers.go).
THEOREM ClaimsLast == StoreSpec => ClaimsAreForGood
<1> DEFINE Lasts ==
      /\ \A k \in DOMAIN db \cap DOMAIN db' :
            /\ k[1] = "NAME" => db'[k].fn = db[k].fn
            /\ k[1] \in {"SUBJECT", "HANDLE"} => db'[k] = db[k]
      /\ \A n \in {NameOf[f] : f \in Fns} :
            Has(pkFuncName(n)) /\ db[pkFuncName(n)].state = "tombstoned" =>
                Has(pkFuncName(n))' /\ db'[pkFuncName(n)] = db[pkFuncName(n)]
      /\ \A k \in DOMAIN db' \ DOMAIN db :
            k[1] \in {"FUNC", "WS"} /\ Len(k) = 2 => k[2] \notin born
<1>1. StoreInv /\ [StoreNext]_storeVars => [Lasts]_storeVars
  <2> SUFFICES ASSUME StoreInv, StoreNext PROVE Lasts
    OBVIOUS
  <2>1. Lasting(db, born, db')
    BY NextRight DEF Right
  <2> QED BY <2>1, KeyFacts DEF Lasting, Has
<1> QED BY <1>1, StoreInductive, PTL DEF StoreSpec, ClaimsAreForGood

\* The refresh secrets of this store are one-time codes: CreateGrant issues
\* one, Rotate trades it, a deletion that is under way beside it ends it
\* (oauth.go).
THEOREM StoreSecretsAreSingleUse == StoreSpec => SecretsAreSingleUse
<1>1. StoreInit => Secrets!Init
  BY InitSecrets
<1>2. StoreInv /\ [StoreNext]_storeVars => [Secrets!Next]_(Secrets!vars)
  BY NextRight, StutterRight DEF Right
<1> QED BY <1>1, <1>2, StoreInductive, PTL DEF StoreSpec, SecretsAreSingleUse, Secrets!Spec
=============================================================================
