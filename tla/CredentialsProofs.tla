-------------------------- MODULE CredentialsProofs --------------------------
(***************************************************************************)
(* Machine-checked proofs about Credentials, for any sets of requests,     *)
(* users, addresses and functions, any lifetimes and any number of changes *)
(* to users and rules while requests are under way.                        *)
(***************************************************************************)
EXTENDS Credentials, TLAPS

(***************************************************************************)
(* The inductive invariant, in parts.                                      *)
(***************************************************************************)

\* A request creates at most one credential, of the kind of its endpoint, with
\* its last step.
BornInv ==
    \A r \in Reqs :
        /\ sessions[r] # None => route[r] = "login" /\ pc[r] = "done"
        /\ codes[r] # None => route[r] = "authorize" /\ pc[r] = "done"
        /\ creds[r] # None => route[r] = "exchange" /\ pc[r] = "done"
        /\ icodes[r] # None => route[r] = "start" /\ pc[r] = "done"
        /\ cookies[r] # None => route[r] = "callback" /\ pc[r] = "done"
        /\ tokens[r] # None => route[r] = "mint" /\ pc[r] = "done"

\* The credential a request came with: its row or signature is there for good,
\* although it may be dead or expired by now.
Held(how, k) ==
    /\ k \in Reqs
    /\ how \in {"session", "sessionInvoke"} => sessions[k] # None
    /\ how = "mint" => creds[k] # None
    /\ how \in {"token", "tokenInvoke"} => tokens[k] # None
    /\ how = "cookieInvoke" => cookies[k] # None

\* What a request has at each place.
PlaceOf(r) ==
    /\ pc[r] = "start" => kind[r] = None /\ key[r] = None
    /\ pc[r] \in {"user", "rules", "refresh", "touch", "sign", "in", "invoked"} =>
          kind[r] \in Takes(route[r]) /\ kind[r] # None
    /\ pc[r] \in {"rules", "refresh", "touch", "sign", "in", "invoked"} => usr[r] # None
    /\ pc[r] = "refresh" => kind[r] = "session"
    /\ pc[r] \in {"touch", "sign"} => kind[r] = "mint"
    /\ pc[r] = "create" => route[r] = "exchange" /\ key[r] \in Reqs /\ codes[key[r]] # None
    /\ kind[r] # None => Held(kind[r], key[r])
    /\ route[r] \in {"login", "exchange", "callback"} => kind[r] = None

PlaceInv == \A r \in Reqs : PlaceOf(r)

\* The histories contain what holds now, and what the request has loaded.
GateOf(r) ==
    /\ Checking(r) =>
          /\ rules \subseteq admitted[r]
          /\ Vouched(kind[r], key[r], status, addr) \subseteq vouched[r]
    /\ pc[r] = "rules" => usr[r].email \in vouched[r]

GateInv == \A r \in Reqs : GateOf(r)

\* Credentials are made before they are used, in the past.
TimeInv ==
    /\ \A r \in Reqs : creds[r] # None => creds[r].made <= now
    /\ \A r \in Reqs : creds[r] # None /\ creds[r].used # None => creds[r].used >= creds[r].made
    /\ \A r \in Reqs : kind[r] = "mint" => creds[key[r]].made <= at[r]

\* A request about to sign has left its trace, and one that has signed, too.
TraceInv ==
    \A r \in Reqs : pc[r] = "sign" \/ tokens[r] # None =>
        kind[r] = "mint" /\ \E q \in Touches(key[r]) : creds[key[r]].used = at[q]

\* Nobody has profited from a code that can still be used.
UnusedInv ==
    \A k \in Reqs :
        /\ Live(codes, k) \/ codes[k] = None => ExchangesOf(k) = {}
        /\ Live(icodes, k) \/ icodes[k] = None => CookiesOf(k) = {}

IInv ==
    /\ TypeOK
    /\ BornInv
    /\ PlaceInv
    /\ GateInv
    /\ TimeInv
    /\ TraceInv
    /\ UnusedInv
    /\ BarredStayOut

-----------------------------------------------------------------------------
(***************************************************************************)
(* What no step takes back: a row stays, with its user, and a dead one     *)
(* stays dead; what is signed stays as it is.                              *)
(***************************************************************************)

RowLasts(old, new) ==
    old # None => new # None /\ new.user = old.user /\ (~old.live => ~new.live)

Lasting ==
    \A k \in Reqs :
        /\ RowLasts(sessions[k], sessions'[k])
        /\ RowLasts(codes[k], codes'[k])
        /\ RowLasts(creds[k], creds'[k])
        /\ creds[k] # None => creds'[k].made = creds[k].made
        /\ RowLasts(icodes[k], icodes'[k])
        /\ cookies[k] # None => cookies'[k] = cookies[k]
        /\ tokens[k] # None => tokens'[k] = tokens[k]

\* No row is inserted.
NoneBorn(old, new) == \A k \in Reqs : new[k] # None => old[k] # None

\* No credential's time of use changes.
UseLasts == \A k \in Reqs : creds[k] # None => creds'[k].used = creds[k].used

\* The types of the tables and of what is signed.
Tables ==
    /\ sessions \in [Reqs -> Session \cup {None}] /\ codes \in [Reqs -> Session \cup {None}]
    /\ creds \in [Reqs -> Credential \cup {None}] /\ icodes \in [Reqs -> InvokeCode \cup {None}]
    /\ cookies \in [Reqs -> Cookie \cup {None}] /\ tokens \in [Reqs -> Token \cup {None}]

\* A table of rows that can be buried.
Graveyard(T) ==
    /\ None \notin T
    /\ \A row \in T : [row EXCEPT !.live = FALSE] \in T /\ RowLasts(row, [row EXCEPT !.live = FALSE])

\* Sessions, codes and credentials are such tables.
LEMMA Graveyards == Graveyard(Session) /\ Graveyard(Credential) /\ Graveyard(InvokeCode)
<1>1. Graveyard(Session)
  BY NoneAssumption DEF Graveyard, RowLasts, Session
<1>2. Graveyard(Credential)
  BY NoneAssumption DEF Graveyard, RowLasts, Credential
<1>3. Graveyard(InvokeCode)
  BY NoneAssumption DEF Graveyard, RowLasts, InvokeCode
<1> QED BY <1>1, <1>2, <1>3

\* A row that is deleted is kept, dead.
LEMMA BuryTable ==
    ASSUME NEW T, Graveyard(T), NEW t \in [Reqs -> T \cup {None}], NEW k \in Reqs
    PROVE  /\ Bury(t, k) \in [Reqs -> T \cup {None}]
           /\ \A j \in Reqs : RowLasts(t[j], Bury(t, k)[j])
           /\ NoneBorn(t, Bury(t, k))
           /\ ~Live(Bury(t, k), k)
<1>1. CASE t[k] = None
  BY <1>1 DEF Bury, RowLasts, Live, NoneBorn
<1>2. CASE t[k] # None
  <2>1. PICK row : row = [t[k] EXCEPT !.live = FALSE]
    OBVIOUS
  <2>2. row \in T /\ RowLasts(t[k], row) /\ Bury(t, k) = [t EXCEPT ![k] = row]
    BY <1>2, <2>1 DEF Graveyard, Bury
  <2>3. ~row.live
    BY <1>2, <2>1, <2>2 DEF Graveyard, RowLasts
  <2> QED BY <1>2, <2>2, <2>3 DEF RowLasts, Live, NoneBorn
<1> QED BY <1>1, <1>2

\* The sweep deletes rows in the same way.
LEMMA SweptTable ==
    ASSUME NEW T, Graveyard(T), NEW t \in [Reqs -> T \cup {None}]
    PROVE  /\ Swept(t) \in [Reqs -> T \cup {None}]
           /\ \A j \in Reqs : RowLasts(t[j], Swept(t)[j])
           /\ NoneBorn(t, Swept(t))
<1>1. \A j \in Reqs : t[j] # None =>
        [t[j] EXCEPT !.live = FALSE] \in T /\ RowLasts(t[j], [t[j] EXCEPT !.live = FALSE])
  BY DEF Graveyard
<1>2. \A j \in Reqs : Swept(t)[j] = t[j] \/ (t[j] # None /\ Swept(t)[j] = [t[j] EXCEPT !.live = FALSE])
  BY DEF Swept
<1>3. \A j \in Reqs : Swept(t)[j] \in T \cup {None}
  BY <1>1, <1>2
<1>4. Swept(t) \in [Reqs -> T \cup {None}]
  BY <1>3 DEF Swept
<1> QED BY <1>1, <1>2, <1>4 DEF RowLasts, NoneBorn

\* A row is inserted where there was none.
LEMMA InsertTable ==
    ASSUME NEW T, NEW t \in [Reqs -> T \cup {None}], NEW r \in Reqs, t[r] = None, NEW row \in T
    PROVE  /\ [t EXCEPT ![r] = row] \in [Reqs -> T \cup {None}]
           /\ \A j \in Reqs : RowLasts(t[j], [t EXCEPT ![r] = row][j])
BY DEF RowLasts

\* A new code is inserted after the sweep.
LEMMA PutTable ==
    ASSUME NEW T, Graveyard(T), NEW t \in [Reqs -> T \cup {None}], NEW r \in Reqs, t[r] = None,
           NEW row \in T
    PROVE  /\ Put(t, r, row) \in [Reqs -> T \cup {None}]
           /\ \A j \in Reqs : RowLasts(t[j], Put(t, r, row)[j])
           /\ Put(t, r, row)[r] = row
           /\ \A j \in Reqs \ {r} : t[j] = None => Put(t, r, row)[j] = None
BY SweptTable DEF Put, RowLasts, NoneBorn

\* Whoever a credential stood for, it still stands for.
LEMMA SubjectLasts ==
    ASSUME Lasting, NEW how \in Kinds, NEW k, Held(how, k)
    PROVE  Held(how, k)' /\ \A ad : Subject(how, k, ad)' = Subject(how, k, ad)
BY DEF Lasting, RowLasts, Held, Subject, Kinds, Strict

\* It stands for users, and vouches for their addresses.
LEMMA SubjectTyped ==
    ASSUME Tables, NEW how \in Kinds, NEW k, Held(how, k)
    PROVE  /\ \A ad : Subject(how, k, ad) \subseteq Users
           /\ \A st : \A ad \in [Users -> Emails] : Vouched(how, k, st, ad) \subseteq Emails
<1>1. \A ad : Subject(how, k, ad) \subseteq Users
  BY DEF Tables, Held, Subject, Kinds, Strict, Session, Credential, Cookie, Token
<1> QED BY <1>1 DEF Vouched

\* A request that does not move.
Still(q) ==
    /\ pc'[q] = pc[q] /\ kind'[q] = kind[q] /\ key'[q] = key[q] /\ usr'[q] = usr[q]
    /\ at'[q] = at[q]

\* What it has stays true,
LEMMA PlaceLasts ==
    ASSUME IInv, Lasting, route' = route, NEW r \in Reqs, Still(r)
    PROVE  PlaceOf(r)'
<1>1. PlaceOf(r) /\ kind[r] \in Kinds \cup {None}
  BY DEF IInv, PlaceInv, TypeOK
<1>2. kind[r] # None => Held(kind[r], key[r])'
  BY <1>1, SubjectLasts DEF PlaceOf, Held, Still
<1>3. pc[r] = "create" => codes'[key[r]] # None
  BY <1>1 DEF PlaceOf, Lasting, RowLasts
<1> QED BY <1>1, <1>2, <1>3 DEF PlaceOf, Still

\* and so do its histories while users and rules stay,
LEMMA GateLasts ==
    ASSUME IInv, Lasting, status' = status, addr' = addr, rules' = rules, NEW r \in Reqs,
           Still(r), vouched'[r] = vouched[r], admitted'[r] = admitted[r]
    PROVE  GateOf(r)'
<1> SUFFICES ASSUME pc'[r] \in {"user", "rules"} PROVE GateOf(r)'
  BY DEF GateOf, Checking
<1>1. GateOf(r) /\ Checking(r) /\ kind[r] \in Kinds /\ Held(kind[r], key[r])
  BY DEF IInv, GateInv, PlaceInv, PlaceOf, TypeOK, Checking, Still
<1>2. PICK how \in Kinds, k \in Reqs : how = kind[r] /\ k = key[r]
  BY <1>1 DEF Held
<1>3. PICK st, ad : st = status /\ ad = addr
  OBVIOUS
<1>4. Vouched(how, k, st, ad)' = Vouched(how, k, st, ad)
  BY <1>1, <1>2, SubjectLasts DEF Vouched
<1>5. Vouched(kind[r], key[r], status, addr)' = Vouched(how, k, st, ad)'
  BY <1>2, <1>3 DEF Vouched, StatusPasses, Strict, Subject, Still
<1> QED BY <1>1, <1>2, <1>3, <1>4, <1>5 DEF GateOf, Checking, Still

\* the times while no credential is made or used,
LEMMA TimesLast ==
    ASSUME IInv, Lasting, UseLasts, now \in Nat, now' \in Nat, now <= now', Tables',
           \A r \in Reqs : creds'[r] # None => creds[r] # None,
           \A r \in Reqs : kind'[r] = "mint" => kind[r] = "mint" /\ key'[r] = key[r] /\ at'[r] = at[r]
    PROVE  TimeInv'
<1>1. \A r \in Reqs : creds[r] # None => creds[r] \in Credential
  BY DEF IInv, TypeOK
<1>2. \A r \in Reqs : kind[r] = "mint" => key[r] \in Reqs /\ creds[key[r]] # None
  BY NoneAssumption DEF IInv, PlaceInv, PlaceOf, Held, Kinds
<1>3. \A r \in Reqs : creds[r] # None => creds'[r].made = creds[r].made /\ creds[r].made \in Nat
  BY <1>1 DEF Lasting, Credential
<1>4. \A r \in Reqs : creds'[r] # None => creds'[r].made <= now'
  BY <1>3 DEF IInv, TimeInv
<1>5. \A r \in Reqs : creds'[r] # None /\ creds'[r].used # None => creds'[r].used >= creds'[r].made
  BY <1>3 DEF IInv, TimeInv, UseLasts
<1>6. \A r \in Reqs : kind'[r] = "mint" => creds'[key'[r]].made <= at'[r]
  BY <1>2, <1>3 DEF IInv, TimeInv
<1> QED BY <1>4, <1>5, <1>6 DEF TimeInv

\* and the traces while no credential is used.
LEMMA TracesLast ==
    ASSUME IInv, Lasting, UseLasts,
           \A q \in Reqs : kind[q] = "mint" =>
               /\ kind'[q] = "mint" /\ key'[q] = key[q] /\ at'[q] = at[q]
               /\ pc[q] \in {"sign", "done"} => pc'[q] \in {"sign", "done"},
           \A r \in Reqs : pc'[r] = "sign" \/ tokens'[r] # None => pc[r] = "sign" \/ tokens[r] # None
    PROVE  TraceInv'
<1> SUFFICES ASSUME NEW r \in Reqs, pc'[r] = "sign" \/ tokens'[r] # None
             PROVE  kind'[r] = "mint" /\ \E q \in Touches(key[r])' : creds'[key'[r]].used = at'[q]
  BY DEF TraceInv
<1>1. kind[r] = "mint" /\ key[r] \in Reqs /\ creds[key[r]] # None
  BY NoneAssumption DEF IInv, TraceInv, PlaceInv, PlaceOf, Held, Kinds
<1>2. PICK q \in Touches(key[r]) : creds[key[r]].used = at[q]
  BY DEF IInv, TraceInv
<1>3. q \in Touches(key[r])' /\ at'[q] = at[q]
  BY <1>1, <1>2 DEF Touches
<1> QED BY <1>1, <1>2, <1>3 DEF UseLasts

-----------------------------------------------------------------------------
(***************************************************************************)
(* The steps of the codes of each table, as steps of SingleUse.            *)
(***************************************************************************)

\* No code is issued, and nobody profits from one.
CLIQuiet == NoneBorn(codes, codes') /\ \A c \in Reqs : ExchangesOf(c)' = ExchangesOf(c)
InvokeQuiet == NoneBorn(icodes, icodes') /\ \A c \in Reqs : CookiesOf(c)' = CookiesOf(c)

\* A code is issued to r.
CLIIssues(r) ==
    /\ codes[r] = None /\ Live(codes, r)'
    /\ \A j \in Reqs \ {r} : codes[j] = None => codes'[j] = None
    /\ \A c \in Reqs : ExchangesOf(c)' = ExchangesOf(c)
InvokeIssues(r) ==
    /\ icodes[r] = None /\ Live(icodes, r)'
    /\ \A j \in Reqs \ {r} : icodes[j] = None => icodes'[j] = None
    /\ \A c \in Reqs : CookiesOf(c)' = CookiesOf(c)

\* r is the one to profit from code k.
CLIUses(r, k) ==
    /\ Live(codes, k) /\ codes'[k] # None /\ ~codes'[k].live
    /\ \A j \in Reqs \ {k} : codes'[j] = codes[j]
    /\ ExchangesOf(k)' = {r} /\ \A c \in Reqs \ {k} : ExchangesOf(c)' = ExchangesOf(c)
InvokeUses(r, k) ==
    /\ Live(icodes, k) /\ icodes'[k] # None /\ ~icodes'[k].live
    /\ \A j \in Reqs \ {k} : icodes'[j] = icodes[j]
    /\ CookiesOf(k)' = {r} /\ \A c \in Reqs \ {k} : CookiesOf(c)' = CookiesOf(c)

CLIStep == CLIQuiet \/ \E r \in Reqs : CLIIssues(r) \/ \E k \in Reqs : CLIUses(r, k)
InvokeStep == InvokeQuiet \/ \E r \in Reqs : InvokeIssues(r) \/ \E k \in Reqs : InvokeUses(r, k)

\* A code is lost or stays, is issued, or is used.
LEMMA CLISteps ==
    ASSUME Lasting, CLIStep
    PROVE  CLICodes!Next
<1>1. ASSUME CLIQuiet PROVE CLICodes!Lose
  BY <1>1 DEF CLIQuiet, CLICodes!Lose, Alive, Dead, Live, Lasting, RowLasts, NoneBorn
<1>2. ASSUME NEW r \in Reqs, CLIIssues(r) PROVE CLICodes!Issue(r)
  BY <1>2 DEF CLIIssues, CLICodes!Issue, Alive, Dead, Live, Lasting, RowLasts
<1>3. ASSUME NEW r \in Reqs, NEW k \in Reqs, CLIUses(r, k) PROVE CLICodes!Use(k)
  <2>1. /\ k \in Alive(codes) /\ Alive(codes)' = Alive(codes) \ {k}
        /\ Dead(codes)' = Dead(codes) \cup {k}
    BY <1>3 DEF CLIUses, Alive, Dead, Live
  <2>2. [c \in Reqs |-> ExchangesOf(c)]' = [[c \in Reqs |-> ExchangesOf(c)] EXCEPT ![k] = {r}]
    BY <1>3 DEF CLIUses
  <2> QED BY <2>1, <2>2 DEF CLICodes!Use
<1> QED BY <1>1, <1>2, <1>3 DEF CLIStep, CLICodes!Next

\* The same for the codes of function hosts.
LEMMA InvokeSteps ==
    ASSUME Lasting, InvokeStep
    PROVE  InvokeCodes!Next
<1>1. ASSUME InvokeQuiet PROVE InvokeCodes!Lose
  BY <1>1 DEF InvokeQuiet, InvokeCodes!Lose, Alive, Dead, Live, Lasting, RowLasts, NoneBorn
<1>2. ASSUME NEW r \in Reqs, InvokeIssues(r) PROVE InvokeCodes!Issue(r)
  BY <1>2 DEF InvokeIssues, InvokeCodes!Issue, Alive, Dead, Live, Lasting, RowLasts
<1>3. ASSUME NEW r \in Reqs, NEW k \in Reqs, InvokeUses(r, k) PROVE InvokeCodes!Use(k)
  <2>1. /\ k \in Alive(icodes) /\ Alive(icodes)' = Alive(icodes) \ {k}
        /\ Dead(icodes)' = Dead(icodes) \cup {k}
    BY <1>3 DEF InvokeUses, Alive, Dead, Live
  <2>2. [c \in Reqs |-> CookiesOf(c)]' = [[c \in Reqs |-> CookiesOf(c)] EXCEPT ![k] = {r}]
    BY <1>3 DEF InvokeUses
  <2> QED BY <2>1, <2>2 DEF InvokeCodes!Use
<1> QED BY <1>1, <1>2, <1>3 DEF InvokeStep, InvokeCodes!Next

\* A code from which somebody has profited is dead.
LEMMA UnusedLasts ==
    ASSUME IInv, Lasting, CLIStep, InvokeStep
    PROVE  UnusedInv'
<1>1. ASSUME NEW c \in Reqs, Live(codes, c)' \/ codes'[c] = None
      PROVE  (Live(codes, c) \/ codes[c] = None) /\ ExchangesOf(c)' = ExchangesOf(c)
  BY <1>1 DEF CLIStep, CLIQuiet, CLIIssues, CLIUses, Lasting, RowLasts, Live
<1>2. ASSUME NEW c \in Reqs, Live(icodes, c)' \/ icodes'[c] = None
      PROVE  (Live(icodes, c) \/ icodes[c] = None) /\ CookiesOf(c)' = CookiesOf(c)
  BY <1>2 DEF InvokeStep, InvokeQuiet, InvokeIssues, InvokeUses, Lasting, RowLasts, Live
<1> QED BY <1>1, <1>2 DEF IInv, UnusedInv

-----------------------------------------------------------------------------
(***************************************************************************)
(* Every action keeps the invariant, and what lasts.                       *)
(***************************************************************************)

\* Time passing deletes nothing by itself.
LEMMA TickKeeps ==
    ASSUME IInv, route' = route, Tick
    PROVE  IInv' /\ Lasting /\ CLIStep /\ InvokeStep
<1>1. Tables' /\ Lasting /\ UseLasts
  BY DEF Tick, world, tables, signed, reg, IInv, TypeOK, Tables, Lasting, RowLasts, UseLasts
<1>2. TypeOK'
  <2>1. now' \in 0..MaxTime
    BY TimesAssumption DEF Tick, IInv, TypeOK
  <2> QED BY <1>1, <2>1 DEF Tick, tables, signed, reg, IInv, TypeOK, Tables
<1>3. BornInv'
  BY <1>1 DEF Tick, world, tables, signed, reg, IInv, TypeOK, BornInv, PlaceInv, PlaceOf, NoneBorn,
       Takes
<1>4. PlaceInv'
  BY <1>1, PlaceLasts DEF Tick, world, tables, signed, reg, PlaceInv, Still
<1>5. GateInv'
  BY <1>1, GateLasts DEF Tick, world, tables, signed, reg, GateInv, Still
<1>6. TimeInv'
  BY <1>1, TimesLast, TimesAssumption DEF Tick, world, tables, signed, reg, IInv, TypeOK, NoneBorn
<1>7. TraceInv'
  BY <1>1, TracesLast, NoneAssumption DEF Tick, world, tables, signed, reg, IInv, TypeOK, PlaceInv,
       PlaceOf
<1>8. CLIStep /\ InvokeStep
  BY <1>1 DEF Tick, world, tables, signed, reg, IInv, TypeOK, BornInv, PlaceInv, PlaceOf, ExchangesOf,
       CookiesOf, NoneBorn, Still, CLIStep, InvokeStep, CLIQuiet, InvokeQuiet
<1>9. UnusedInv'
  BY <1>1, <1>8, UnusedLasts
<1>10. BarredStayOut'
  BY DEF Tick, world, tables, signed, reg, IInv, TypeOK, BarredStayOut, PlaceInv, PlaceOf
<1> QED BY <1>1, <1>2, <1>3, <1>4, <1>5, <1>6, <1>7, <1>8, <1>9, <1>10 DEF IInv

\* Users and rules change under the requests: the histories take in the new rows.
LEMMA ChangeKeeps ==
    ASSUME IInv, route' = route, Change
    PROVE  IInv' /\ Lasting /\ CLIStep /\ InvokeStep
<1>1. Tables' /\ Lasting /\ UseLasts
  BY DEF Change, Free, world, tables, signed, reg, IInv, TypeOK, Tables, Lasting, RowLasts, UseLasts
<1>2. TypeOK'
  <2>1. /\ status' \in [Users -> {"active", "pending", "disabled"}]
        /\ addr' \in [Users -> Emails] /\ rules' \subseteq Emails
    BY DEF Change, IInv, TypeOK
  <2>2. \A u, v \in Users : addr'[u] = addr'[v] => u = v
    BY DEF Change, Free, IInv, TypeOK
  <2>3. changes' \in 0..MaxChanges
    BY TimesAssumption DEF Change, IInv, TypeOK
  <2>4. ASSUME NEW r \in Reqs, Checking(r)
        PROVE  Vouched(kind[r], key[r], status', addr') \subseteq Emails
    <3>1. kind[r] \in Kinds /\ Held(kind[r], key[r])
      BY <2>4 DEF IInv, TypeOK, PlaceInv, PlaceOf, Checking
    <3>2. Tables
      BY DEF IInv, TypeOK, Tables
    <3> QED BY <2>1, <3>1, <3>2, SubjectTyped
  <2>5. vouched' \in [Reqs -> SUBSET Emails] /\ admitted' \in [Reqs -> SUBSET Emails]
    <3>1. /\ vouched' = [r \in Reqs |-> vouched[r] \cup
              (IF Checking(r) THEN Vouched(kind[r], key[r], status', addr') ELSE {})]
          /\ admitted' = [r \in Reqs |-> admitted[r] \cup (IF Checking(r) THEN rules' ELSE {})]
      BY DEF Change
    <3> QED BY <2>1, <2>4, <3>1 DEF IInv, TypeOK
  <2> QED BY <1>1, <2>1, <2>2, <2>3, <2>5 DEF Change, tables, signed, reg, IInv, TypeOK, Tables
<1>3. BornInv'
  BY <1>1 DEF Change, Free, world, tables, signed, reg, IInv, TypeOK, BornInv, PlaceInv, PlaceOf,
       NoneBorn, Takes
<1>4. PlaceInv'
  BY <1>1, PlaceLasts DEF Change, Free, world, tables, signed, reg, PlaceInv, Still
<1>5. GateInv'
  <2> SUFFICES ASSUME NEW r \in Reqs PROVE GateOf(r)'
    BY DEF GateInv
  <2>1. pc' = pc /\ kind' = kind /\ key' = key /\ usr' = usr /\ GateOf(r)
    BY DEF Change, reg, IInv, GateInv
  <2>2. /\ vouched'[r] = vouched[r] \cup
            (IF Checking(r) THEN Vouched(kind[r], key[r], status', addr') ELSE {})
        /\ admitted'[r] = admitted[r] \cup (IF Checking(r) THEN rules' ELSE {})
    BY DEF Change
  <2>3. Vouched(kind[r], key[r], status, addr)' = Vouched(kind[r], key[r], status', addr')
    BY <2>1 DEF Change, tables, signed, Vouched, Subject, StatusPasses
  <2> QED BY <2>1, <2>2, <2>3 DEF GateOf, Checking
<1>6. TimeInv'
  BY <1>1, TimesLast, TimesAssumption DEF Change, Free, world, tables, signed, reg, IInv, TypeOK,
       NoneBorn
<1>7. TraceInv'
  BY <1>1, TracesLast, NoneAssumption DEF Change, Free, world, tables, signed, reg, IInv, TypeOK,
       PlaceInv, PlaceOf
<1>8. CLIStep /\ InvokeStep
  BY <1>1 DEF Change, Free, world, tables, signed, reg, IInv, TypeOK, BornInv, PlaceInv, PlaceOf,
       ExchangesOf, CookiesOf, NoneBorn, Still, CLIStep, InvokeStep, CLIQuiet, InvokeQuiet
<1>9. UnusedInv'
  BY <1>1, <1>8, UnusedLasts
<1>10. BarredStayOut'
  <2>1. \A r \in Reqs : vouched[r] \subseteq vouched'[r] /\ admitted[r] \subseteq admitted'[r]
    BY DEF Change
  <2> QED BY <2>1 DEF Change, IInv, BarredStayOut
<1> QED BY <1>1, <1>2, <1>3, <1>4, <1>5, <1>6, <1>7, <1>8, <1>9, <1>10 DEF IInv

\* Expired rows die.
LEMMA SweepKeeps ==
    ASSUME IInv, route' = route, Sweep
    PROVE  IInv' /\ Lasting /\ CLIStep /\ InvokeStep
<1>1. /\ Tables' /\ Lasting /\ UseLasts /\ NoneBorn(sessions, sessions') /\ NoneBorn(codes, codes')
      /\ NoneBorn(icodes, icodes')
  <2>1. /\ sessions \in [Reqs -> Session \cup {None}] /\ codes \in [Reqs -> Session \cup {None}]
        /\ icodes \in [Reqs -> InvokeCode \cup {None}]
    BY DEF IInv, TypeOK
  <2>2. /\ sessions' = Swept(sessions) /\ codes' = Swept(codes) /\ icodes' = Swept(icodes)
        /\ creds' = creds /\ cookies' = cookies /\ tokens' = tokens
    BY DEF Sweep, tables, signed
  <2>3. /\ sessions' \in [Reqs -> Session \cup {None}]
        /\ NoneBorn(sessions, sessions') /\ \A j \in Reqs : RowLasts(sessions[j], sessions'[j])
    BY <2>1, <2>2, SweptTable, Graveyards
  <2>4. /\ codes' \in [Reqs -> Session \cup {None}]
        /\ NoneBorn(codes, codes') /\ \A j \in Reqs : RowLasts(codes[j], codes'[j])
    BY <2>1, <2>2, SweptTable, Graveyards
  <2>5. /\ icodes' \in [Reqs -> InvokeCode \cup {None}]
        /\ NoneBorn(icodes, icodes') /\ \A j \in Reqs : RowLasts(icodes[j], icodes'[j])
    BY <2>1, <2>2, SweptTable, Graveyards
  <2> QED BY <2>2, <2>3, <2>4, <2>5 DEF IInv, TypeOK, Tables, Lasting, RowLasts, UseLasts
<1>2. TypeOK'
  BY <1>1 DEF Sweep, Swept, world, tables, signed, reg, IInv, TypeOK, Tables, Places
<1>3. BornInv'
  BY <1>1 DEF Sweep, Swept, world, tables, signed, reg, IInv, TypeOK, BornInv, PlaceInv, PlaceOf,
       NoneBorn, Takes
<1>4. PlaceInv'
  BY <1>1, PlaceLasts DEF Sweep, Swept, world, tables, signed, reg, PlaceInv, Still
<1>5. GateInv'
  BY <1>1, GateLasts DEF Sweep, Swept, world, tables, signed, reg, GateInv, Still
<1>6. TimeInv'
  BY <1>1, TimesLast, TimesAssumption DEF Sweep, Swept, world, tables, signed, reg, IInv, TypeOK,
       NoneBorn
<1>7. TraceInv'
  BY <1>1, TracesLast, NoneAssumption DEF Sweep, Swept, world, tables, signed, reg, IInv, TypeOK,
       PlaceInv, PlaceOf
<1>8. CLIStep /\ InvokeStep
  BY <1>1 DEF Sweep, Swept, world, tables, signed, reg, IInv, TypeOK, BornInv, PlaceInv, PlaceOf,
       ExchangesOf, CookiesOf, NoneBorn, Still, CLIStep, InvokeStep, CLIQuiet, InvokeQuiet
<1>9. UnusedInv'
  BY <1>1, <1>8, UnusedLasts
<1>10. BarredStayOut'
  BY DEF Sweep, Swept, world, tables, signed, reg, IInv, TypeOK, BarredStayOut, PlaceInv, PlaceOf
<1> QED BY <1>1, <1>2, <1>3, <1>4, <1>5, <1>6, <1>7, <1>8, <1>9, <1>10 DEF IInv

\* A request starts its histories with the credential that it found good.
LEMMA PresentKeeps ==
    ASSUME IInv, route' = route, NEW r \in Reqs, NEW how \in Kinds, NEW k \in Reqs,
           NEW f \in Functions \cup {None}, Present(r, how, k, f)
    PROVE  IInv' /\ Lasting /\ CLIStep /\ InvokeStep
<1>1. Tables' /\ Lasting /\ UseLasts
  BY DEF Present, tables, signed, IInv, TypeOK, Tables, Lasting, RowLasts, UseLasts
<1>2. \A q \in Reqs \ {r} : Still(q)
  BY DEF Present, Goto, world, tables, signed, reg, IInv, TypeOK, Still
<1>3. Held(how, k) /\ kind[r] = None
  BY DEF Present, Presents, SessionFound, Live, Verified, CookieFits, Kinds, Strict, Held, IInv,
       PlaceInv, PlaceOf
<1>4. TypeOK'
  <2>1. vouched' \in [Reqs -> SUBSET Emails] /\ admitted' \in [Reqs -> SUBSET Emails]
    <3>1. Vouched(how, k, status, addr) \subseteq Emails
      BY <1>3, SubjectTyped DEF IInv, TypeOK, Tables
    <3> QED BY <3>1 DEF Present, IInv, TypeOK
  <2>2. pc' \in [Reqs -> Places]
    BY DEF Present, Goto, Places, IInv, TypeOK
  <2> QED BY <1>1, <2>1, <2>2 DEF Present, tables, signed, reg, IInv, TypeOK, Tables
<1>5. BornInv'
  BY <1>1 DEF Present, Goto, world, tables, signed, reg, IInv, TypeOK, BornInv, PlaceInv, PlaceOf,
       NoneBorn, Takes
<1>6. PlaceInv'
  <2>1. PlaceOf(r)'
    <3>1. Held(how, k)'
      BY <1>1, <1>3, SubjectLasts
    <3>2. kind'[r] = how /\ key'[r] = k /\ pc'[r] = "user" /\ how \in Takes(route[r])
      BY DEF Present, Goto, IInv, TypeOK
    <3>3. route[r] \notin {"login", "exchange", "callback"} /\ how # None
      BY <3>2, NoneAssumption DEF Takes
    <3> QED BY <3>1, <3>2, <3>3 DEF PlaceOf
  <2> QED BY <1>1, <1>2, <2>1, PlaceLasts DEF PlaceInv
<1>7. GateInv'
  <2>1. Vouched(how, k, status, addr)' = Vouched(how, k, status, addr)
    BY DEF Present, tables, signed, Vouched, Subject
  <2>2. /\ kind'[r] = how /\ key'[r] = k /\ pc'[r] = "user" /\ rules' = rules
        /\ vouched'[r] = Vouched(how, k, status, addr) /\ admitted'[r] = rules
    BY DEF Present, Goto, IInv, TypeOK
  <2>3. Vouched(kind[r], key[r], status, addr)' = Vouched(how, k, status, addr)'
    BY <2>2 DEF Vouched, Subject, StatusPasses
  <2>4. GateOf(r)'
    BY <2>1, <2>2, <2>3 DEF GateOf
  <2>5. \A q \in Reqs \ {r} : GateOf(q)'
    <3>1. \A q \in Reqs \ {r} : vouched'[q] = vouched[q] /\ admitted'[q] = admitted[q]
      BY DEF Present, IInv, TypeOK
    <3> QED BY <1>1, <1>2, <3>1, GateLasts DEF Present
  <2> QED BY <2>4, <2>5 DEF GateInv
<1>8. TimeInv'
  <2>1. creds' = creds /\ now' = now
    BY DEF Present, tables
  <2>2. \A q \in Reqs \ {r} : kind'[q] = "mint" => creds'[key'[q]].made <= at'[q]
    BY <1>2, <2>1 DEF IInv, TimeInv, Still
  <2>3. kind'[r] = "mint" => creds'[key'[r]].made <= at'[r]
    BY <1>3, <2>1 DEF Present, IInv, TypeOK, TimeInv, Held
  <2> QED BY <2>1, <2>2, <2>3 DEF IInv, TimeInv
<1>9. TraceInv'
  <2>1. pc'[r] = "user" /\ pc[r] = "start" /\ tokens' = tokens /\ tokens[r] = None
    BY DEF Present, Goto, signed, IInv, TypeOK, BornInv
  <2> QED BY <1>1, <1>2, <1>3, <2>1, TracesLast, NoneAssumption DEF Still, Kinds
<1>10. CLIStep /\ InvokeStep
  BY <1>1, <1>2 DEF Present, Goto, world, tables, signed, reg, IInv, TypeOK, BornInv, PlaceInv, PlaceOf,
       ExchangesOf, CookiesOf, NoneBorn, Still, CLIStep, InvokeStep, CLIQuiet, InvokeQuiet
<1>11. UnusedInv'
  BY <1>1, <1>10, UnusedLasts
<1>12. BarredStayOut'
  BY DEF Present, Goto, world, tables, signed, reg, IInv, TypeOK, BarredStayOut, PlaceInv, PlaceOf
<1> QED BY <1>1, <1>2, <1>3, <1>4, <1>5, <1>6, <1>7, <1>8, <1>9, <1>10, <1>11, <1>12 DEF IInv

\* The address that is loaded is one the credential vouches for at this moment.
LEMMA LoadUserKeeps ==
    ASSUME IInv, route' = route, NEW r \in Reqs, LoadUser(r)
    PROVE  IInv' /\ Lasting /\ CLIStep /\ InvokeStep
<1>1. Tables' /\ Lasting /\ UseLasts
  BY DEF LoadUser, Goto, world, tables, signed, reg, IInv, TypeOK, Tables, Lasting, RowLasts, UseLasts
<1>2. \A q \in Reqs \ {r} : Still(q)
  BY DEF LoadUser, Goto, world, tables, signed, reg, IInv, TypeOK, Still
<1>3. TypeOK'
  <2>1. usr' \in [Reqs -> User \cup {None}] /\ pc' \in [Reqs -> Places]
    <3>1. Subject(kind[r], key[r], addr) \subseteq Users
      BY SubjectTyped DEF LoadUser, IInv, TypeOK, Tables, PlaceInv, PlaceOf
    <3>2. \A u \in Users : StatusPasses(kind[r], status[u]) =>
            [id |-> u, email |-> addr[u], status |-> status[u]] \in User
      BY DEF StatusPasses, User, IInv, TypeOK
    <3> QED BY <3>1, <3>2 DEF LoadUser, Goto, Places, IInv, TypeOK
  <2> QED BY <1>1, <2>1 DEF LoadUser, world, tables, signed, IInv, TypeOK, Tables
<1>4. BornInv'
  BY <1>1 DEF LoadUser, Goto, world, tables, signed, reg, IInv, TypeOK, BornInv, PlaceInv, PlaceOf,
       NoneBorn, Takes
<1>5. PlaceInv'
  <2>1. PlaceOf(r)'
    <3>1. pc'[r] = "failed" \/ (pc'[r] = "rules" /\ usr'[r] # None)
      <4>1. SUFFICES ASSUME pc'[r] # "failed" PROVE pc'[r] = "rules" /\ usr'[r] # None
        OBVIOUS
      <4>2. PICK u \in Subject(kind[r], key[r], addr) :
              /\ StatusPasses(kind[r], status[u])
              /\ usr' = [usr EXCEPT ![r] = [id |-> u, email |-> addr[u], status |-> status[u]]]
              /\ pc' = [pc EXCEPT ![r] = "rules"]
        BY <4>1 DEF LoadUser, Goto, IInv, TypeOK
      <4>3. u \in Users
        BY SubjectTyped DEF LoadUser, IInv, TypeOK, Tables, PlaceInv, PlaceOf
      <4>4. [id |-> u, email |-> addr[u], status |-> status[u]] \in User
        BY <4>2, <4>3 DEF StatusPasses, User, IInv, TypeOK
      <4> QED BY <4>2, <4>4, NoneAssumption DEF IInv, TypeOK
    <3>2. pc[r] = "user" /\ kind' = kind /\ key' = key
      BY DEF LoadUser
    <3>3. PlaceOf(r) /\ kind[r] \in Kinds \cup {None}
      BY DEF IInv, PlaceInv, TypeOK
    <3>4. kind[r] # None => Held(kind[r], key[r])'
      BY <1>1, <3>2, <3>3, SubjectLasts DEF PlaceOf, Held
    <3> QED BY <3>1, <3>2, <3>3, <3>4 DEF PlaceOf
  <2> QED BY <1>1, <1>2, <2>1, PlaceLasts DEF PlaceInv
<1>6. GateInv'
  <2>1. GateOf(r)'
    <3>1. CASE pc'[r] = "failed"
      BY <3>1 DEF GateOf, Checking
    <3>2. CASE pc'[r] # "failed"
      <4>1. PICK u \in Subject(kind[r], key[r], addr) :
              /\ StatusPasses(kind[r], status[u])
              /\ usr' = [usr EXCEPT ![r] = [id |-> u, email |-> addr[u], status |-> status[u]]]
              /\ pc' = [pc EXCEPT ![r] = "rules"]
        BY <3>2 DEF LoadUser, Goto, IInv, TypeOK
      <4>2. usr'[r].email = addr[u]
        BY <4>1 DEF IInv, TypeOK
      <4>3. addr[u] \in Vouched(kind[r], key[r], status, addr)
        BY <4>1 DEF Vouched
      <4>4. Vouched(kind[r], key[r], status, addr)' = Vouched(kind[r], key[r], status, addr)
        BY DEF LoadUser, world, tables, signed, Vouched, Subject
      <4>5. /\ GateOf(r) /\ pc[r] = "user" /\ rules' = rules /\ vouched' = vouched
            /\ admitted' = admitted
        BY DEF LoadUser, world, IInv, GateInv
      <4> QED BY <4>2, <4>3, <4>4, <4>5 DEF GateOf, Checking
    <3> QED BY <3>1, <3>2
  <2>2. \A q \in Reqs \ {r} : GateOf(q)'
    BY <1>1, <1>2, GateLasts DEF LoadUser, world
  <2> QED BY <2>1, <2>2 DEF GateInv
<1>7. TimeInv'
  BY <1>1, TimesLast, TimesAssumption DEF LoadUser, Goto, world, tables, signed, reg, IInv, TypeOK,
       NoneBorn
<1>8. TraceInv'
  BY <1>1, TracesLast, NoneAssumption DEF LoadUser, Goto, world, tables, signed, reg, IInv, TypeOK,
       PlaceInv, PlaceOf
<1>9. CLIStep /\ InvokeStep
  BY <1>1, <1>2 DEF LoadUser, Goto, world, tables, signed, reg, IInv, TypeOK, BornInv, PlaceInv,
       PlaceOf, ExchangesOf, CookiesOf, NoneBorn, Still, CLIStep, InvokeStep, CLIQuiet, InvokeQuiet
<1>10. UnusedInv'
  BY <1>1, <1>9, UnusedLasts
<1>11. BarredStayOut'
  BY DEF LoadUser, Goto, world, tables, signed, reg, IInv, TypeOK, BarredStayOut, PlaceInv, PlaceOf
<1> QED BY <1>1, <1>2, <1>3, <1>4, <1>5, <1>6, <1>7, <1>8, <1>9, <1>10, <1>11 DEF IInv

\* The rules admit the loaded address at this moment, if not when it was loaded.
LEMMA CheckRulesKeeps ==
    ASSUME IInv, route' = route, NEW r \in Reqs, CheckRules(r)
    PROVE  IInv' /\ Lasting /\ CLIStep /\ InvokeStep
<1>1. Tables' /\ Lasting /\ UseLasts
  BY DEF CheckRules, Goto, world, tables, signed, reg, IInv, TypeOK, Tables, Lasting, RowLasts, UseLasts
<1>2. \A q \in Reqs \ {r} : Still(q)
  BY DEF CheckRules, Goto, world, tables, signed, reg, IInv, TypeOK, Still
<1>3. TypeOK'
  BY <1>1 DEF CheckRules, Goto, world, tables, signed, reg, IInv, TypeOK, Tables, Places
<1>4. BornInv'
  BY <1>1 DEF CheckRules, Goto, world, tables, signed, reg, IInv, TypeOK, BornInv, PlaceInv, PlaceOf,
       NoneBorn, Takes
<1>5. PlaceInv'
  <2>1. PlaceOf(r)'
    BY <1>1, NoneAssumption DEF CheckRules, Goto, world, tables, signed, reg, IInv, TypeOK, BornInv,
         PlaceInv, PlaceOf, Held, Lasting, RowLasts
  <2> QED BY <1>1, <1>2, <2>1, PlaceLasts DEF PlaceInv
<1>6. GateInv'
  <2>1. GateOf(r)'
    BY DEF CheckRules, Goto, world, tables, signed, reg, IInv, TypeOK, GateOf, Checking
  <2>2. \A q \in Reqs \ {r} : GateOf(q)'
    BY <1>1, <1>2, GateLasts DEF CheckRules, world
  <2> QED BY <2>1, <2>2 DEF GateInv
<1>7. TimeInv'
  BY <1>1, TimesLast, TimesAssumption DEF CheckRules, Goto, world, tables, signed, reg, IInv, TypeOK,
       NoneBorn
<1>8. TraceInv'
  BY <1>1, TracesLast, NoneAssumption DEF CheckRules, Goto, world, tables, signed, reg, IInv, TypeOK,
       PlaceInv, PlaceOf
<1>9. CLIStep /\ InvokeStep
  BY <1>1, <1>2 DEF CheckRules, Goto, world, tables, signed, reg, IInv, TypeOK, BornInv, PlaceInv,
       PlaceOf, ExchangesOf, CookiesOf, NoneBorn, Still, CLIStep, InvokeStep, CLIQuiet, InvokeQuiet
<1>10. UnusedInv'
  BY <1>1, <1>9, UnusedLasts
<1>11. BarredStayOut'
  <2>1. pc'[r] \in {"refresh", "touch", "invoked", "in"} => vouched[r] \cap admitted[r] # {}
    BY DEF CheckRules, Goto, IInv, TypeOK, GateInv, GateOf, Checking
  <2> QED BY <1>2, <2>1 DEF CheckRules, world, IInv, BarredStayOut, Still
<1> QED BY <1>1, <1>2, <1>3, <1>4, <1>5, <1>6, <1>7, <1>8, <1>9, <1>10, <1>11 DEF IInv

\* A refresh prolongs a row that is live, and no other.
LEMMA RefreshKeeps ==
    ASSUME IInv, route' = route, NEW r \in Reqs, Refresh(r)
    PROVE  IInv' /\ Lasting /\ CLIStep /\ InvokeStep
<1>1. Tables' /\ Lasting /\ UseLasts /\ NoneBorn(sessions, sessions')
  <2>1. key[r] \in Reqs /\ sessions[key[r]] \in Session /\ sessions[key[r]] # None
    BY NoneAssumption DEF Refresh, IInv, PlaceInv, PlaceOf, Held, TypeOK
  <2>2. PICK row : row = [sessions[key[r]] EXCEPT !.exp = at[r] + SessionLife]
    OBVIOUS
  <2>3. /\ row \in Session /\ row.user = sessions[key[r]].user /\ row.live = sessions[key[r]].live
        /\ row # None
    BY <2>1, <2>2, TimesAssumption, NoneAssumption DEF Session, IInv, TypeOK
  <2>4. sessions' = sessions \/ sessions' = [sessions EXCEPT ![key[r]] = row]
    BY <2>2 DEF Refresh
  <2>5. /\ sessions' \in [Reqs -> Session \cup {None}] /\ NoneBorn(sessions, sessions')
        /\ \A j \in Reqs : RowLasts(sessions[j], sessions'[j])
    BY <2>1, <2>3, <2>4 DEF IInv, TypeOK, RowLasts, NoneBorn
  <2>6. /\ codes' = codes /\ creds' = creds /\ icodes' = icodes /\ cookies' = cookies
        /\ tokens' = tokens
    BY DEF Refresh, tables, signed
  <2> QED BY <2>5, <2>6 DEF IInv, TypeOK, Tables, Lasting, RowLasts, UseLasts
<1>2. \A q \in Reqs \ {r} : Still(q)
  BY DEF Refresh, Goto, world, tables, signed, reg, IInv, TypeOK, Still
<1>3. TypeOK'
  BY <1>1 DEF Refresh, Goto, world, tables, signed, reg, IInv, TypeOK, Tables, Places
<1>4. BornInv'
  BY <1>1 DEF Refresh, Goto, world, tables, signed, reg, IInv, TypeOK, BornInv, PlaceInv, PlaceOf,
       NoneBorn, Takes
<1>5. PlaceInv'
  <2>1. PlaceOf(r)'
    BY <1>1, NoneAssumption DEF Refresh, Goto, world, tables, signed, reg, IInv, TypeOK, BornInv,
         PlaceInv, PlaceOf, Held, Lasting, RowLasts
  <2> QED BY <1>1, <1>2, <2>1, PlaceLasts DEF PlaceInv
<1>6. GateInv'
  <2>1. GateOf(r)'
    BY DEF Refresh, Goto, world, tables, signed, reg, IInv, TypeOK, GateOf, Checking
  <2>2. \A q \in Reqs \ {r} : GateOf(q)'
    BY <1>1, <1>2, GateLasts DEF Refresh, world
  <2> QED BY <2>1, <2>2 DEF GateInv
<1>7. TimeInv'
  BY <1>1, TimesLast, TimesAssumption DEF Refresh, Goto, world, tables, signed, reg, IInv, TypeOK,
       NoneBorn
<1>8. TraceInv'
  BY <1>1, TracesLast, NoneAssumption DEF Refresh, Goto, world, tables, signed, reg, IInv, TypeOK,
       PlaceInv, PlaceOf
<1>9. CLIStep /\ InvokeStep
  BY <1>1, <1>2 DEF Refresh, Goto, world, tables, signed, reg, IInv, TypeOK, BornInv, PlaceInv, PlaceOf,
       ExchangesOf, CookiesOf, NoneBorn, Still, CLIStep, InvokeStep, CLIQuiet, InvokeQuiet
<1>10. UnusedInv'
  BY <1>1, <1>9, UnusedLasts
<1>11. BarredStayOut'
  BY DEF Refresh, Goto, world, tables, signed, reg, IInv, TypeOK, BarredStayOut, PlaceInv, PlaceOf
<1> QED BY <1>1, <1>2, <1>3, <1>4, <1>5, <1>6, <1>7, <1>8, <1>9, <1>10, <1>11 DEF IInv

\* A touch leaves the time of its request; a mint that finds no live row fails.
LEMMA TouchKeeps ==
    ASSUME IInv, route' = route, NEW r \in Reqs, Touch(r)
    PROVE  IInv' /\ Lasting /\ CLIStep /\ InvokeStep
<1>1. Tables' /\ Lasting /\ NoneBorn(creds, creds')
  <2>1. key[r] \in Reqs /\ creds[key[r]] \in Credential /\ creds[key[r]] # None
    BY NoneAssumption DEF Touch, IInv, PlaceInv, PlaceOf, Held, TypeOK
  <2>2. PICK row : row = [creds[key[r]] EXCEPT !.used = at[r]]
    OBVIOUS
  <2>3. at[r] \in Nat
    BY TimesAssumption DEF IInv, TypeOK
  <2>4. /\ row \in Credential /\ row.user = creds[key[r]].user
        /\ row.live = creds[key[r]].live /\ row.made = creds[key[r]].made
    BY <2>1, <2>2, <2>3 DEF Credential
  <2>5. row # None
    BY <2>4, NoneAssumption
  <2>6. creds' = creds \/ creds' = [creds EXCEPT ![key[r]] = row]
    BY <2>2 DEF Touch
  <2>7. /\ creds' \in [Reqs -> Credential \cup {None}] /\ NoneBorn(creds, creds')
        /\ \A j \in Reqs : RowLasts(creds[j], creds'[j]) /\ (creds[j] # None => creds'[j].made = creds[j].made)
    BY <2>1, <2>4, <2>5, <2>6 DEF IInv, TypeOK, RowLasts, NoneBorn
  <2>8. /\ sessions' = sessions /\ codes' = codes /\ icodes' = icodes /\ cookies' = cookies
        /\ tokens' = tokens
    BY DEF Touch, signed
  <2> QED BY <2>7, <2>8 DEF IInv, TypeOK, Tables, Lasting, RowLasts
<1>2. \A q \in Reqs \ {r} : Still(q)
  BY DEF Touch, Goto, world, tables, signed, reg, IInv, TypeOK, Still
<1>3. TypeOK'
  BY <1>1 DEF Touch, Goto, world, tables, signed, reg, IInv, TypeOK, Tables, Places
<1>4. BornInv'
  BY <1>1 DEF Touch, Goto, world, tables, signed, reg, IInv, TypeOK, BornInv, PlaceInv, PlaceOf,
       NoneBorn, Takes
<1>5. PlaceInv'
  <2>1. PlaceOf(r)'
    BY <1>1, NoneAssumption DEF Touch, Goto, world, tables, signed, reg, IInv, TypeOK, BornInv,
         PlaceInv, PlaceOf, Held, Lasting, RowLasts
  <2> QED BY <1>1, <1>2, <2>1, PlaceLasts DEF PlaceInv
<1>6. GateInv'
  <2>1. GateOf(r)'
    BY DEF Touch, Goto, world, tables, signed, reg, IInv, TypeOK, GateOf, Checking
  <2>2. \A q \in Reqs \ {r} : GateOf(q)'
    BY <1>1, <1>2, GateLasts DEF Touch, world
  <2> QED BY <2>1, <2>2 DEF GateInv
<1>7. TimeInv'
  <2>1. /\ pc[r] = "touch" /\ kind[r] = "mint" /\ key[r] \in Reqs /\ creds[key[r]] \in Credential
        /\ creds[key[r]] # None /\ kind' = kind /\ key' = key /\ at' = at /\ now' = now
        /\ tokens' = tokens
    BY NoneAssumption DEF Touch, reg, world, signed, IInv, PlaceInv, PlaceOf, Held, TypeOK
  <2>2. \A j \in Reqs : creds[j] # None => creds'[j].made = creds[j].made
    BY <1>1 DEF Lasting
  <2>3. \A j \in Reqs \ {key[r]} : creds'[j] = creds[j]
    BY DEF Touch, IInv, TypeOK
  <2>4. creds'[key[r]].used = creds[key[r]].used \/ creds'[key[r]].used = at[r]
    BY <2>1 DEF Touch, IInv, TypeOK, Credential
  <2>5. \A j \in Reqs : creds'[j] # None => creds'[j].made <= now'
    BY <1>1, <2>1, <2>2 DEF IInv, TimeInv, NoneBorn
  <2>6. \A j \in Reqs : creds'[j] # None /\ creds'[j].used # None => creds'[j].used >= creds'[j].made
    BY <1>1, <2>1, <2>2, <2>3, <2>4 DEF IInv, TimeInv, NoneBorn
  <2>7. \A q \in Reqs : kind[q] = "mint" => key[q] \in Reqs /\ creds[key[q]] # None
    BY NoneAssumption DEF IInv, PlaceInv, PlaceOf, Held, Kinds
  <2>8. \A q \in Reqs : kind'[q] = "mint" => creds'[key'[q]].made <= at'[q]
    BY <2>1, <2>2, <2>7 DEF IInv, TimeInv
  <2> QED BY <2>5, <2>6, <2>8 DEF TimeInv
<1>8. TraceInv'
  <2>1. /\ pc[r] = "touch" /\ kind[r] = "mint" /\ key[r] \in Reqs /\ creds[key[r]] \in Credential
        /\ creds[key[r]] # None /\ kind' = kind /\ key' = key /\ at' = at /\ now' = now
        /\ tokens' = tokens
    BY NoneAssumption DEF Touch, reg, world, signed, IInv, PlaceInv, PlaceOf, Held, TypeOK
  <2>2. CASE ~Live(creds, key[r])
    <3>1. creds' = creds /\ pc' = [pc EXCEPT ![r] = "failed"]
      BY <2>2 DEF Touch, Goto
    <3> QED BY <1>1, <1>2, <2>1, <3>1, TracesLast DEF UseLasts, Still, IInv, TypeOK
  <2>3. CASE Live(creds, key[r])
    <3>1. creds' = [creds EXCEPT ![key[r]].used = at[r]] /\ pc' = [pc EXCEPT ![r] = "sign"]
      BY <2>3 DEF Touch, Goto
    <3>2. creds'[key[r]].used = at'[r] /\ \A j \in Reqs \ {key[r]} : creds'[j] = creds[j]
      BY <2>1, <3>1 DEF IInv, TypeOK, Credential
    <3>3. r \in Touches(key[r])'
      BY <2>1, <3>1 DEF Touches, IInv, TypeOK
    <3> SUFFICES ASSUME NEW x \in Reqs, pc'[x] = "sign" \/ tokens'[x] # None
                 PROVE  kind'[x] = "mint" /\ \E q \in Touches(key[x])' : creds'[key'[x]].used = at'[q]
      BY DEF TraceInv
    <3>4. kind[x] = "mint" /\ key[x] \in Reqs
      BY <2>1, <3>1, NoneAssumption DEF IInv, TypeOK, TraceInv, PlaceInv, PlaceOf, Held, Kinds
    <3>5. CASE key[x] = key[r]
      <4>1. Touches(key[x])' = Touches(key[r])'
        BY <2>1, <3>5 DEF Touches
      <4> QED BY <2>1, <3>2, <3>3, <3>4, <3>5, <4>1
    <3>6. CASE key[x] # key[r]
      <4>1. PICK q \in Touches(key[x]) : creds[key[x]].used = at[q]
        BY <2>1, <3>1, <3>6 DEF IInv, TypeOK, TraceInv
      <4>2. q \in Touches(key[x])'
        BY <1>2, <2>1, <4>1 DEF Touches, Still
      <4> QED BY <2>1, <3>2, <3>4, <3>6, <4>1, <4>2
    <3> QED BY <3>5, <3>6
  <2> QED BY <2>2, <2>3
<1>9. CLIStep /\ InvokeStep
  <2>1. \A q \in Reqs : creds'[q] # None <=> creds[q] # None
    BY <1>1 DEF NoneBorn, Lasting, RowLasts
  <2>2. /\ codes' = codes /\ icodes' = icodes /\ cookies' = cookies /\ key' = key
        /\ pc[r] # "create" /\ pc'[r] # "create"
    BY DEF Touch, Goto, world, tables, signed, reg, IInv, TypeOK
  <2> QED BY <1>2, <2>1, <2>2 DEF CLIStep, InvokeStep, CLIQuiet, InvokeQuiet, NoneBorn, ExchangesOf,
       CookiesOf, Still
<1>10. UnusedInv'
  BY <1>1, <1>9, UnusedLasts
<1>11. BarredStayOut'
  BY DEF Touch, Goto, world, tables, signed, reg, IInv, TypeOK, BarredStayOut, PlaceInv, PlaceOf
<1> QED BY <1>1, <1>2, <1>3, <1>4, <1>5, <1>6, <1>7, <1>8, <1>9, <1>10, <1>11 DEF IInv

\* A token is signed by a request that has touched its credential.
LEMMA SignKeeps ==
    ASSUME IInv, route' = route, NEW r \in Reqs, Sign(r)
    PROVE  IInv' /\ Lasting /\ CLIStep /\ InvokeStep
<1>1. Tables' /\ Lasting /\ UseLasts
  <2>1. usr[r] \in User /\ key[r] \in Reqs /\ tokens[r] = None
    BY DEF Sign, IInv, PlaceInv, PlaceOf, Held, TypeOK, BornInv
  <2>2. \A ttl \in TTLs : NewToken(r, ttl) \in Token
    BY <2>1, TimesAssumption DEF NewToken, Token, TTLs, User, IInv, TypeOK
  <2>3. \E t \in Token : tokens' = [tokens EXCEPT ![r] = t]
    BY <2>2 DEF Sign
  <2> QED BY <2>1, <2>3 DEF Sign, tables, IInv, TypeOK, Tables, Lasting, RowLasts, UseLasts
<1>2. \A q \in Reqs \ {r} : Still(q)
  BY DEF Sign, Goto, world, tables, signed, reg, IInv, TypeOK, Still
<1>3. TypeOK'
  BY <1>1 DEF Sign, Goto, world, tables, signed, reg, IInv, TypeOK, Tables, Places
<1>4. BornInv'
  <2>1. route[r] = "mint"
    BY DEF Sign, IInv, PlaceInv, PlaceOf, Takes, Strict
  <2>2. /\ sessions' = sessions /\ codes' = codes /\ creds' = creds /\ icodes' = icodes
        /\ cookies' = cookies /\ \A q \in Reqs \ {r} : tokens'[q] = tokens[q]
    BY DEF Sign, tables, IInv, TypeOK
  <2>3. pc[r] = "sign" /\ pc'[r] = "done"
    BY DEF Sign, Goto, IInv, TypeOK
  <2> QED BY <1>2, <2>1, <2>2, <2>3 DEF IInv, BornInv, Still
<1>5. PlaceInv'
  <2>1. PlaceOf(r)'
    BY <1>1, NoneAssumption DEF Sign, Goto, world, tables, signed, reg, IInv, TypeOK, BornInv, PlaceInv,
         PlaceOf, Held, Lasting, RowLasts
  <2> QED BY <1>1, <1>2, <2>1, PlaceLasts DEF PlaceInv
<1>6. GateInv'
  <2>1. GateOf(r)'
    BY DEF Sign, Goto, world, tables, signed, reg, IInv, TypeOK, GateOf, Checking
  <2>2. \A q \in Reqs \ {r} : GateOf(q)'
    BY <1>1, <1>2, GateLasts DEF Sign, world
  <2> QED BY <2>1, <2>2 DEF GateInv
<1>7. TimeInv'
  BY <1>1, TimesLast, TimesAssumption DEF Sign, Goto, world, tables, signed, reg, IInv, TypeOK, NoneBorn
<1>8. TraceInv'
  BY <1>1, TracesLast, NoneAssumption DEF Sign, Goto, world, tables, signed, reg, IInv, TypeOK,
       PlaceInv, PlaceOf
<1>9. CLIStep /\ InvokeStep
  BY <1>1, <1>2 DEF Sign, Goto, world, tables, signed, reg, IInv, TypeOK, BornInv, PlaceInv, PlaceOf,
       ExchangesOf, CookiesOf, NoneBorn, Still, CLIStep, InvokeStep, CLIQuiet, InvokeQuiet
<1>10. UnusedInv'
  BY <1>1, <1>9, UnusedLasts
<1>11. BarredStayOut'
  BY DEF Sign, Goto, world, tables, signed, reg, IInv, TypeOK, BarredStayOut, PlaceInv, PlaceOf
<1> QED BY <1>1, <1>2, <1>3, <1>4, <1>5, <1>6, <1>7, <1>8, <1>9, <1>10, <1>11 DEF IInv

\* A code is issued where there was none, and expired ones are swept.
LEMMA AuthorizeKeeps ==
    ASSUME IInv, route' = route, NEW r \in Reqs, Authorize(r)
    PROVE  IInv' /\ Lasting /\ CLIStep /\ InvokeStep
<1>1. /\ Tables' /\ Lasting /\ UseLasts /\ Live(codes, r)'
      /\ \A j \in Reqs \ {r} : codes[j] = None => codes'[j] = None
  <2>1. codes' = Put(codes, r, NewCode(usr[r].id)) /\ codes[r] = None
    BY DEF Authorize, Approved, IInv, BornInv
  <2>2. usr[r] \in User
    BY DEF Authorize, Approved, IInv, PlaceInv, PlaceOf, TypeOK
  <2>3. NewCode(usr[r].id) \in Session
    BY <2>2, TimesAssumption DEF NewCode, Session, User, IInv, TypeOK
  <2>4. codes'[r] = NewCode(usr[r].id)
    <3>1. PICK row \in Session : row = NewCode(usr[r].id)
      BY <2>3
    <3>2. codes \in [Reqs -> Session \cup {None}]
      BY DEF IInv, TypeOK
    <3> QED BY <2>1, <3>1, <3>2, PutTable, Graveyards
  <2>5. Live(codes, r)'
    BY <2>1, <2>3, <2>4, NoneAssumption DEF Live, NewCode
  <2>6. /\ codes' \in [Reqs -> Session \cup {None}]
        /\ (\A j \in Reqs \ {r} : codes[j] = None => codes'[j] = None)
        /\ \A j \in Reqs : RowLasts(codes[j], codes'[j])
    <3>1. PICK row \in Session : row = NewCode(usr[r].id)
      BY <2>3
    <3>2. codes \in [Reqs -> Session \cup {None}] /\ codes[r] = None /\ codes' = Put(codes, r, row)
      BY <2>1, <3>1 DEF IInv, TypeOK
    <3> QED BY ONLY <3>2, PutTable, Graveyards, r \in Reqs, row \in Session
  <2>7. /\ sessions' = sessions /\ creds' = creds /\ icodes' = icodes /\ cookies' = cookies
        /\ tokens' = tokens
    BY DEF Authorize, tables, signed
  <2>8. Tables' /\ UseLasts
    BY <2>6, <2>7 DEF IInv, TypeOK, Tables, UseLasts
  <2> QED BY <2>5, <2>6, <2>7, <2>8 DEF Lasting, RowLasts
<1>2. \A q \in Reqs \ {r} : Still(q)
  BY DEF Authorize, Approved, Goto, world, tables, signed, reg, IInv, TypeOK, Still
<1>3. TypeOK'
  BY <1>1 DEF Authorize, Approved, Goto, world, tables, signed, reg, IInv, TypeOK, Tables, Places
<1>4. BornInv'
  BY <1>1 DEF Authorize, Approved, Goto, world, tables, signed, reg, IInv, TypeOK, BornInv, PlaceInv,
       PlaceOf, NoneBorn, Takes
<1>5. PlaceInv'
  <2>1. PlaceOf(r)'
    BY <1>1, NoneAssumption DEF Authorize, Approved, Goto, world, tables, signed, reg, IInv, TypeOK,
         BornInv, PlaceInv, PlaceOf, Held, Lasting, RowLasts
  <2> QED BY <1>1, <1>2, <2>1, PlaceLasts DEF PlaceInv
<1>6. GateInv'
  <2>1. GateOf(r)'
    BY DEF Authorize, Approved, Goto, world, tables, signed, reg, IInv, TypeOK, GateOf, Checking
  <2>2. \A q \in Reqs \ {r} : GateOf(q)'
    BY <1>1, <1>2, GateLasts DEF Authorize, world
  <2> QED BY <2>1, <2>2 DEF GateInv
<1>7. TimeInv'
  BY <1>1, TimesLast, TimesAssumption DEF Authorize, Approved, Goto, world, tables, signed, reg, IInv,
       TypeOK, NoneBorn
<1>8. TraceInv'
  BY <1>1, TracesLast, NoneAssumption DEF Authorize, Approved, Goto, world, tables, signed, reg, IInv,
       TypeOK, PlaceInv, PlaceOf
<1>9. CLIStep /\ InvokeStep
  <2>1. codes[r] = None
    BY DEF Authorize, Approved, Goto, world, tables, signed, reg, IInv, BornInv
  <2>2. /\ icodes' = icodes /\ creds' = creds /\ cookies' = cookies /\ creds[r] = None
        /\ pc'[r] = "done" /\ pc[r] = "in"
    BY DEF Authorize, Approved, Goto, world, tables, signed, reg, IInv, TypeOK, BornInv
  <2>3. \A c \in Reqs : ExchangesOf(c)' = ExchangesOf(c) /\ CookiesOf(c)' = CookiesOf(c)
    BY <1>2, <2>2 DEF ExchangesOf, CookiesOf, Still
  <2>4. CLIIssues(r)
    BY <1>1, <2>1, <2>3 DEF CLIIssues, Live
  <2>5. InvokeQuiet
    BY <2>2, <2>3 DEF InvokeQuiet, NoneBorn
  <2> QED BY <2>4, <2>5 DEF CLIStep, InvokeStep
<1>10. UnusedInv'
  BY <1>1, <1>9, UnusedLasts
<1>11. BarredStayOut'
  BY DEF Authorize, Approved, Goto, world, tables, signed, reg, IInv, TypeOK, BarredStayOut, PlaceInv,
       PlaceOf
<1> QED BY <1>1, <1>2, <1>3, <1>4, <1>5, <1>6, <1>7, <1>8, <1>9, <1>10, <1>11 DEF IInv

\* The one who consumed a code profits from it with a credential; the code was dead.
LEMMA CreateCredentialKeeps ==
    ASSUME IInv, route' = route, NEW r \in Reqs, CreateCredential(r)
    PROVE  IInv' /\ Lasting /\ CLIStep /\ InvokeStep
<1>1. Tables' /\ Lasting /\ UseLasts /\ NoneBorn(codes, codes')
  <2>1. key[r] \in Reqs /\ codes[key[r]] \in Session /\ creds[r] = None
    BY DEF CreateCredential, IInv, PlaceInv, PlaceOf, BornInv, TypeOK
  <2>2. NewCredential(codes[key[r]].user) \in Credential
    BY <2>1, TimesAssumption DEF NewCredential, Credential, Session, IInv, TypeOK
  <2>3. /\ creds' = [creds EXCEPT ![r] = NewCredential(codes[key[r]].user)]
        /\ codes' = Bury(codes, key[r])
    BY DEF CreateCredential
  <2>4. /\ creds' \in [Reqs -> Credential \cup {None}]
        /\ \A j \in Reqs : creds[j] # None => creds'[j] = creds[j]
    BY <2>1, <2>2, <2>3 DEF IInv, TypeOK
  <2>5. /\ codes' \in [Reqs -> Session \cup {None}] /\ NoneBorn(codes, codes')
        /\ \A j \in Reqs : RowLasts(codes[j], codes'[j])
    BY <2>1, <2>3, BuryTable, Graveyards DEF IInv, TypeOK
  <2> QED BY <2>4, <2>5 DEF CreateCredential, signed, IInv, TypeOK, Tables, Lasting, RowLasts, UseLasts
<1>2. \A q \in Reqs \ {r} : Still(q)
  BY DEF CreateCredential, Goto, world, tables, signed, reg, IInv, TypeOK, Still
<1>3. TypeOK'
  BY <1>1 DEF CreateCredential, Goto, world, tables, signed, reg, IInv, TypeOK, Tables, Places
<1>4. BornInv'
  BY <1>1 DEF CreateCredential, Goto, world, tables, signed, reg, IInv, TypeOK, BornInv, PlaceInv,
       PlaceOf, NoneBorn, Takes
<1>5. PlaceInv'
  <2>1. PlaceOf(r)'
    BY <1>1, NoneAssumption DEF CreateCredential, Goto, world, tables, signed, reg, IInv, TypeOK,
         BornInv, PlaceInv, PlaceOf, Held, Lasting, RowLasts
  <2> QED BY <1>1, <1>2, <2>1, PlaceLasts DEF PlaceInv
<1>6. GateInv'
  <2>1. GateOf(r)'
    BY DEF CreateCredential, Goto, world, tables, signed, reg, IInv, TypeOK, GateOf, Checking
  <2>2. \A q \in Reqs \ {r} : GateOf(q)'
    BY <1>1, <1>2, GateLasts DEF CreateCredential, world
  <2> QED BY <2>1, <2>2 DEF GateInv
<1>7. TimeInv'
  <2>1. /\ creds'[r].made = now /\ creds'[r].used = None
        /\ \A j \in Reqs \ {r} : creds'[j] = creds[j]
    BY DEF CreateCredential, NewCredential, IInv, TypeOK
  <2>2. now' = now /\ kind' = kind /\ key' = key /\ at' = at /\ now \in Nat /\ creds[r] = None
    BY DEF CreateCredential, world, reg, IInv, TypeOK, BornInv
  <2>3. \A q \in Reqs : kind[q] = "mint" => key[q] \in Reqs /\ creds[key[q]] # None
    BY NoneAssumption DEF IInv, PlaceInv, PlaceOf, Held, Kinds
  <2>4. \A q \in Reqs : kind[q] = "mint" => creds'[key[q]] = creds[key[q]]
    BY <2>1, <2>2, <2>3
  <2> QED BY <2>1, <2>2, <2>4 DEF IInv, TimeInv
<1>8. TraceInv'
  BY <1>1, TracesLast, NoneAssumption DEF CreateCredential, Goto, world, tables, signed, reg, IInv,
       TypeOK, PlaceInv, PlaceOf
<1>9. CLIStep /\ InvokeStep
  <2>1. \A q \in Reqs \ {r} : creds'[q] = creds[q]
    BY DEF CreateCredential, IInv, TypeOK
  <2>2. icodes' = icodes /\ cookies' = cookies /\ key' = key /\ pc[r] = "create" /\ pc'[r] = "done"
    BY DEF CreateCredential, Goto, world, tables, signed, reg, IInv, TypeOK
  <2>3. creds'[r] # None
    <3>1. key[r] \in Reqs /\ codes[key[r]] \in Session
      BY DEF CreateCredential, IInv, PlaceInv, PlaceOf, TypeOK
    <3>2. NewCredential(codes[key[r]].user) \in Credential
      BY <3>1, TimesAssumption DEF NewCredential, Credential, Session, IInv, TypeOK
    <3> QED BY <3>2, NoneAssumption DEF CreateCredential, IInv, TypeOK
  <2>4. \A c \in Reqs : ExchangesOf(c)' = ExchangesOf(c) /\ CookiesOf(c)' = CookiesOf(c)
    BY <1>2, <2>1, <2>2, <2>3 DEF ExchangesOf, CookiesOf, Still
  <2> QED BY <1>1, <2>2, <2>4 DEF CLIStep, InvokeStep, CLIQuiet, InvokeQuiet, NoneBorn
<1>10. UnusedInv'
  BY <1>1, <1>9, UnusedLasts
<1>11. BarredStayOut'
  BY DEF CreateCredential, Goto, world, tables, signed, reg, IInv, TypeOK, BarredStayOut, PlaceInv,
       PlaceOf
<1> QED BY <1>1, <1>2, <1>3, <1>4, <1>5, <1>6, <1>7, <1>8, <1>9, <1>10, <1>11 DEF IInv

\* A session is created where there was none.
LEMMA LoginKeeps ==
    ASSUME IInv, route' = route, NEW r \in Reqs, NEW u \in Users, Login(r, u)
    PROVE  IInv' /\ Lasting /\ CLIStep /\ InvokeStep
<1>1. Tables' /\ Lasting /\ UseLasts
  <2>1. sessions' = [sessions EXCEPT ![r] = NewSession(u)] /\ sessions[r] = None
    BY DEF Login, Comes, IInv, BornInv
  <2>2. NewSession(u) \in Session
    BY TimesAssumption DEF NewSession, Session, IInv, TypeOK
  <2>3. /\ sessions' \in [Reqs -> Session \cup {None}]
        /\ \A j \in Reqs : RowLasts(sessions[j], sessions'[j])
    <3>1. PICK row \in Session : row = NewSession(u)
      BY <2>2
    <3>2. /\ sessions \in [Reqs -> Session \cup {None}] /\ sessions[r] = None
          /\ sessions' = [sessions EXCEPT ![r] = row]
      BY <2>1, <3>1 DEF IInv, TypeOK
    <3> QED BY ONLY <3>2, InsertTable, Graveyards, r \in Reqs, row \in Session
  <2>4. /\ codes' = codes /\ creds' = creds /\ icodes' = icodes /\ cookies' = cookies
        /\ tokens' = tokens
    BY DEF Login, tables, signed
  <2>5. Tables' /\ UseLasts
    BY <2>3, <2>4 DEF IInv, TypeOK, Tables, UseLasts
  <2> QED BY <2>3, <2>4, <2>5 DEF Lasting, RowLasts
<1>2. \A q \in Reqs \ {r} : Still(q)
  BY DEF Login, Goto, Comes, world, tables, signed, reg, IInv, TypeOK, Still
<1>3. TypeOK'
  BY <1>1 DEF Login, Goto, Comes, world, tables, signed, reg, IInv, TypeOK, Tables, Places
<1>4. BornInv'
  BY <1>1 DEF Login, Goto, Comes, world, tables, signed, reg, IInv, TypeOK, BornInv, PlaceInv, PlaceOf,
       NoneBorn, Takes
<1>5. PlaceInv'
  <2>1. PlaceOf(r)'
    BY <1>1, NoneAssumption DEF Login, Goto, Comes, world, tables, signed, reg, IInv, TypeOK, BornInv,
         PlaceInv, PlaceOf, Held, Lasting, RowLasts
  <2> QED BY <1>1, <1>2, <2>1, PlaceLasts DEF PlaceInv
<1>6. GateInv'
  <2>1. GateOf(r)'
    BY DEF Login, Goto, Comes, world, tables, signed, reg, IInv, TypeOK, GateOf, Checking
  <2>2. \A q \in Reqs \ {r} : GateOf(q)'
    BY <1>1, <1>2, GateLasts DEF Login, world
  <2> QED BY <2>1, <2>2 DEF GateInv
<1>7. TimeInv'
  BY <1>1, TimesLast, TimesAssumption DEF Login, Goto, Comes, world, tables, signed, reg, IInv, TypeOK,
       NoneBorn
<1>8. TraceInv'
  BY <1>1, TracesLast, NoneAssumption DEF Login, Goto, Comes, world, tables, signed, reg, IInv, TypeOK,
       PlaceInv, PlaceOf
<1>9. CLIStep /\ InvokeStep
  BY <1>1, <1>2 DEF Login, Goto, Comes, world, tables, signed, reg, IInv, TypeOK, BornInv, PlaceInv,
       PlaceOf, ExchangesOf, CookiesOf, NoneBorn, Still, CLIStep, InvokeStep, CLIQuiet, InvokeQuiet
<1>10. UnusedInv'
  BY <1>1, <1>9, UnusedLasts
<1>11. BarredStayOut'
  BY DEF Login, Goto, Comes, world, tables, signed, reg, IInv, TypeOK, BarredStayOut, PlaceInv, PlaceOf
<1> QED BY <1>1, <1>2, <1>3, <1>4, <1>5, <1>6, <1>7, <1>8, <1>9, <1>10, <1>11 DEF IInv

\* A logout buries the session of its cookie.
LEMMA LogoutKeeps ==
    ASSUME IInv, route' = route, NEW r \in Reqs, NEW k \in Reqs, Logout(r, k)
    PROVE  IInv' /\ Lasting /\ CLIStep /\ InvokeStep
<1>1. Tables' /\ Lasting /\ UseLasts /\ NoneBorn(sessions, sessions')
  <2>1. sessions' = Bury(sessions, k)
    BY DEF Logout
  <2>2. /\ sessions' \in [Reqs -> Session \cup {None}] /\ NoneBorn(sessions, sessions')
        /\ \A j \in Reqs : RowLasts(sessions[j], sessions'[j])
    BY <2>1, BuryTable, Graveyards DEF IInv, TypeOK
  <2>3. /\ codes' = codes /\ creds' = creds /\ icodes' = icodes /\ cookies' = cookies
        /\ tokens' = tokens
    BY DEF Logout, tables, signed
  <2> QED BY <2>2, <2>3 DEF IInv, TypeOK, Tables, Lasting, RowLasts, UseLasts
<1>2. \A q \in Reqs \ {r} : Still(q)
  BY DEF Logout, Goto, Comes, world, tables, signed, reg, IInv, TypeOK, Still
<1>3. TypeOK'
  BY <1>1 DEF Logout, Goto, Comes, world, tables, signed, reg, IInv, TypeOK, Tables, Places
<1>4. BornInv'
  BY <1>1 DEF Logout, Goto, Comes, world, tables, signed, reg, IInv, TypeOK, BornInv, PlaceInv, PlaceOf,
       NoneBorn, Takes
<1>5. PlaceInv'
  <2>1. PlaceOf(r)'
    BY <1>1, NoneAssumption DEF Logout, Goto, Comes, world, tables, signed, reg, IInv, TypeOK, BornInv,
         PlaceInv, PlaceOf, Held, Lasting, RowLasts
  <2> QED BY <1>1, <1>2, <2>1, PlaceLasts DEF PlaceInv
<1>6. GateInv'
  <2>1. GateOf(r)'
    BY DEF Logout, Goto, Comes, world, tables, signed, reg, IInv, TypeOK, GateOf, Checking
  <2>2. \A q \in Reqs \ {r} : GateOf(q)'
    BY <1>1, <1>2, GateLasts DEF Logout, world
  <2> QED BY <2>1, <2>2 DEF GateInv
<1>7. TimeInv'
  BY <1>1, TimesLast, TimesAssumption DEF Logout, Goto, Comes, world, tables, signed, reg, IInv, TypeOK,
       NoneBorn
<1>8. TraceInv'
  BY <1>1, TracesLast, NoneAssumption DEF Logout, Goto, Comes, world, tables, signed, reg, IInv, TypeOK,
       PlaceInv, PlaceOf
<1>9. CLIStep /\ InvokeStep
  BY <1>1, <1>2 DEF Logout, Goto, Comes, world, tables, signed, reg, IInv, TypeOK, BornInv, PlaceInv,
       PlaceOf, ExchangesOf, CookiesOf, NoneBorn, Still, CLIStep, InvokeStep, CLIQuiet, InvokeQuiet
<1>10. UnusedInv'
  BY <1>1, <1>9, UnusedLasts
<1>11. BarredStayOut'
  BY DEF Logout, Goto, Comes, world, tables, signed, reg, IInv, TypeOK, BarredStayOut, PlaceInv, PlaceOf
<1> QED BY <1>1, <1>2, <1>3, <1>4, <1>5, <1>6, <1>7, <1>8, <1>9, <1>10, <1>11 DEF IInv

\* A code that is consumed is dead, whether the verifier fits or not.
LEMMA ExchangeKeeps ==
    ASSUME IInv, route' = route, NEW r \in Reqs, NEW k \in Reqs, Exchange(r, k)
    PROVE  IInv' /\ Lasting /\ CLIStep /\ InvokeStep
<1>1. Tables' /\ Lasting /\ UseLasts /\ NoneBorn(codes, codes')
  <2>1. codes' = Bury(codes, k)
    BY DEF Exchange
  <2>2. /\ codes' \in [Reqs -> Session \cup {None}] /\ NoneBorn(codes, codes')
        /\ \A j \in Reqs : RowLasts(codes[j], codes'[j])
    BY <2>1, BuryTable, Graveyards DEF IInv, TypeOK
  <2>3. /\ sessions' = sessions /\ creds' = creds /\ icodes' = icodes /\ cookies' = cookies
        /\ tokens' = tokens
    BY DEF Exchange, tables, signed
  <2> QED BY <2>2, <2>3 DEF IInv, TypeOK, Tables, Lasting, RowLasts, UseLasts
<1>2. \A q \in Reqs \ {r} : Still(q)
  BY DEF Exchange, Goto, Comes, world, tables, signed, reg, IInv, TypeOK, Still
<1>3. TypeOK'
  <2>1. key' \in [Reqs -> Reqs \cup {None}] /\ pc' \in [Reqs -> Places]
    BY DEF Exchange, Goto, Places, IInv, TypeOK
  <2> QED BY <1>1, <2>1 DEF Exchange, world, tables, signed, IInv, TypeOK, Tables
<1>4. BornInv'
  BY <1>1 DEF Exchange, Goto, Comes, world, tables, signed, reg, IInv, TypeOK, BornInv, PlaceInv,
       PlaceOf, NoneBorn, Takes
<1>5. PlaceInv'
  <2>1. PlaceOf(r)'
    <3>1. route[r] = "exchange" /\ kind'[r] = None /\ key'[r] = k /\ pc'[r] \in {"create", "failed"}
      BY DEF Exchange, Comes, Goto, IInv, PlaceInv, PlaceOf, TypeOK
    <3>2. codes'[k] # None
      BY <1>1 DEF Exchange, Consumable, Live, Lasting, RowLasts
    <3> QED BY <3>1, <3>2 DEF PlaceOf
  <2> QED BY <1>1, <1>2, <2>1, PlaceLasts DEF PlaceInv
<1>6. GateInv'
  <2>1. GateOf(r)'
    BY DEF Exchange, Goto, Comes, world, tables, signed, reg, IInv, TypeOK, GateOf, Checking
  <2>2. \A q \in Reqs \ {r} : GateOf(q)'
    BY <1>1, <1>2, GateLasts DEF Exchange, world
  <2> QED BY <2>1, <2>2 DEF GateInv
<1>7. TimeInv'
  <2>1. /\ kind[r] = None /\ kind' = kind /\ creds' = creds /\ now' = now /\ now \in Nat
        /\ at' = at /\ tokens' = tokens /\ tokens[r] = None /\ pc'[r] # "sign"
    BY DEF Exchange, Comes, Goto, world, signed, IInv, PlaceInv, PlaceOf, TypeOK, BornInv
  <2>2. \A q \in Reqs : kind'[q] = "mint" => kind[q] = "mint" /\ key'[q] = key[q] /\ at'[q] = at[q]
    BY <1>2, <2>1, NoneAssumption DEF Still, Kinds
  <2> QED BY <1>1, <2>1, <2>2, TimesLast
<1>8. TraceInv'
  <2>1. /\ kind[r] = None /\ kind' = kind /\ creds' = creds /\ now' = now /\ now \in Nat
        /\ at' = at /\ tokens' = tokens /\ tokens[r] = None /\ pc'[r] # "sign"
    BY DEF Exchange, Comes, Goto, world, signed, IInv, PlaceInv, PlaceOf, TypeOK, BornInv
  <2> QED BY <1>1, <1>2, <2>1, TracesLast, NoneAssumption DEF Still, Kinds
<1>9. CLIStep /\ InvokeStep
  <2>1. /\ /\ key'[r] = k /\ creds' = creds /\ cookies' = cookies /\ icodes' = icodes
        /\ creds[r] = None
        /\ codes' = Bury(codes, k) /\ Live(codes, k) /\ pc[r] = "start"
        /\ pc'[r] \in {"create", "failed"}
    BY DEF Exchange, Comes, Goto, signed, Consumable, IInv, TypeOK, BornInv
  <2>2. codes'[k] # None /\ ~codes'[k].live /\ \A j \in Reqs \ {k} : codes'[j] = codes[j]
    <3>1. codes'[k] # None /\ ~Live(codes', k)
      BY <1>1, <2>1, BuryTable, Graveyards DEF IInv, TypeOK, Live, Lasting, RowLasts
    <3> QED BY <2>1, <3>1 DEF Live, Bury, IInv, TypeOK
  <2>3. InvokeQuiet
    BY <2>1 DEF InvokeQuiet, CookiesOf, NoneBorn
  <2>4. \A c \in Reqs \ {k} : ExchangesOf(c)' = ExchangesOf(c)
    BY <1>2, <2>1, NoneAssumption DEF ExchangesOf, Still, IInv, PlaceInv, PlaceOf
  <2>5. ExchangesOf(k) = {}
    BY <2>1 DEF IInv, UnusedInv
  <2>6. CASE pc'[r] = "create"
    <3>1. ExchangesOf(k)' = {r}
      BY <1>2, <2>1, <2>5, <2>6 DEF ExchangesOf, Still
    <3>2. CLIUses(r, k)
      BY <2>1, <2>2, <2>4, <3>1 DEF CLIUses
    <3> QED BY <2>3, <3>2 DEF CLIStep, InvokeStep
  <2>7. CASE pc'[r] = "failed"
    <3>1. ExchangesOf(k)' = ExchangesOf(k)
      BY <1>2, <2>1, <2>5, <2>7 DEF ExchangesOf, Still
    <3>2. CLIQuiet
      BY <1>1, <2>4, <3>1 DEF CLIQuiet
    <3> QED BY <2>3, <3>2 DEF CLIStep, InvokeStep
  <2> QED BY <2>1, <2>6, <2>7
<1>10. UnusedInv'
  BY <1>1, <1>9, UnusedLasts
<1>11. BarredStayOut'
  BY DEF Exchange, Goto, Comes, world, tables, signed, reg, IInv, TypeOK, BarredStayOut, PlaceInv,
       PlaceOf
<1> QED BY <1>1, <1>2, <1>3, <1>4, <1>5, <1>6, <1>7, <1>8, <1>9, <1>10, <1>11 DEF IInv

\* A code for a function host is issued where there was none.
LEMMA InvokeStartKeeps ==
    ASSUME IInv, route' = route, NEW r \in Reqs, NEW f \in Functions, InvokeStart(r, f)
    PROVE  IInv' /\ Lasting /\ CLIStep /\ InvokeStep
<1>1. /\ Tables' /\ Lasting /\ UseLasts /\ Live(icodes, r)'
      /\ \A j \in Reqs \ {r} : icodes[j] = None => icodes'[j] = None
  <2>1. PICK row : row = [user |-> usr[r].id, fn |-> f, exp |-> now + CodeLife, live |-> TRUE]
    OBVIOUS
  <2>2. icodes' = Put(icodes, r, row) /\ icodes[r] = None
    BY <2>1 DEF InvokeStart, IInv, BornInv
  <2>3. usr[r] \in User
    BY DEF InvokeStart, IInv, PlaceInv, PlaceOf, TypeOK
  <2>4. row \in InvokeCode
    BY <2>1, <2>3, TimesAssumption DEF InvokeCode, User, IInv, TypeOK
  <2>5. icodes'[r] = row
    BY <2>1, <2>2, <2>4, PutTable, Graveyards DEF IInv, TypeOK
  <2>6. Live(icodes, r)'
    BY <2>1, <2>2, <2>4, <2>5, NoneAssumption DEF Live, NewCode
  <2>7. /\ icodes' \in [Reqs -> InvokeCode \cup {None}]
        /\ (\A j \in Reqs \ {r} : icodes[j] = None => icodes'[j] = None)
        /\ \A j \in Reqs : RowLasts(icodes[j], icodes'[j])
    BY <2>2, <2>4, PutTable, Graveyards DEF IInv, TypeOK
  <2>8. /\ sessions' = sessions /\ codes' = codes /\ creds' = creds /\ cookies' = cookies
        /\ tokens' = tokens
    BY DEF InvokeStart, tables, signed
  <2> QED BY <2>6, <2>7, <2>8 DEF IInv, TypeOK, Tables, Lasting, RowLasts, UseLasts
<1>2. \A q \in Reqs \ {r} : Still(q)
  BY DEF InvokeStart, Goto, world, tables, signed, reg, IInv, TypeOK, Still
<1>3. TypeOK'
  BY <1>1 DEF InvokeStart, Goto, world, tables, signed, reg, IInv, TypeOK, Tables, Places
<1>4. BornInv'
  BY <1>1 DEF InvokeStart, Goto, world, tables, signed, reg, IInv, TypeOK, BornInv, PlaceInv, PlaceOf,
       NoneBorn, Takes
<1>5. PlaceInv'
  <2>1. PlaceOf(r)'
    BY <1>1, NoneAssumption DEF InvokeStart, Goto, world, tables, signed, reg, IInv, TypeOK, BornInv,
         PlaceInv, PlaceOf, Held, Lasting, RowLasts
  <2> QED BY <1>1, <1>2, <2>1, PlaceLasts DEF PlaceInv
<1>6. GateInv'
  <2>1. GateOf(r)'
    BY DEF InvokeStart, Goto, world, tables, signed, reg, IInv, TypeOK, GateOf, Checking
  <2>2. \A q \in Reqs \ {r} : GateOf(q)'
    BY <1>1, <1>2, GateLasts DEF InvokeStart, world
  <2> QED BY <2>1, <2>2 DEF GateInv
<1>7. TimeInv'
  BY <1>1, TimesLast, TimesAssumption DEF InvokeStart, Goto, world, tables, signed, reg, IInv, TypeOK,
       NoneBorn
<1>8. TraceInv'
  BY <1>1, TracesLast, NoneAssumption DEF InvokeStart, Goto, world, tables, signed, reg, IInv, TypeOK,
       PlaceInv, PlaceOf
<1>9. CLIStep /\ InvokeStep
  <2>1. icodes[r] = None
    BY DEF InvokeStart, Goto, world, tables, signed, reg, IInv, BornInv
  <2>2. /\ codes' = codes /\ creds' = creds /\ cookies' = cookies /\ creds[r] = None
        /\ pc'[r] = "done" /\ pc[r] = "in"
    BY DEF InvokeStart, Goto, world, tables, signed, reg, IInv, TypeOK, BornInv
  <2>3. \A c \in Reqs : ExchangesOf(c)' = ExchangesOf(c) /\ CookiesOf(c)' = CookiesOf(c)
    BY <1>2, <2>2 DEF ExchangesOf, CookiesOf, Still
  <2>4. InvokeIssues(r)
    BY <1>1, <2>1, <2>3 DEF InvokeIssues, Live
  <2>5. CLIQuiet
    BY <2>2, <2>3 DEF CLIQuiet, NoneBorn
  <2> QED BY <2>4, <2>5 DEF CLIStep, InvokeStep
<1>10. UnusedInv'
  BY <1>1, <1>9, UnusedLasts
<1>11. BarredStayOut'
  BY DEF InvokeStart, Goto, world, tables, signed, reg, IInv, TypeOK, BarredStayOut, PlaceInv, PlaceOf
<1> QED BY <1>1, <1>2, <1>3, <1>4, <1>5, <1>6, <1>7, <1>8, <1>9, <1>10, <1>11 DEF IInv

\* A code that is consumed at its host is dead, and its consumer alone has a cookie.
LEMMA InvokeCallbackKeeps ==
    ASSUME IInv, route' = route, NEW r \in Reqs, NEW k \in Reqs, NEW f \in Functions,
           InvokeCallback(r, k, f)
    PROVE  IInv' /\ Lasting /\ CLIStep /\ InvokeStep
<1>1. Tables' /\ Lasting /\ UseLasts /\ NoneBorn(icodes, icodes')
  <2>1. CASE ~ConsumableAt(k, f)
    BY <2>1 DEF InvokeCallback, NoneBorn, IInv, TypeOK, Tables, Lasting, RowLasts, UseLasts
  <2>2. CASE ConsumableAt(k, f)
    <3>1. icodes' = Bury(icodes, k) /\ cookies' = [cookies EXCEPT ![r] = NewCookie(k, f)]
      BY <2>2 DEF InvokeCallback
    <3>2. icodes[k] \in InvokeCode /\ cookies[r] = None
      BY <2>2 DEF InvokeCallback, Comes, IInv, TypeOK, BornInv
    <3>3. NewCookie(k, f) \in Cookie
      BY <3>2, TimesAssumption DEF NewCookie, Cookie, InvokeCode, IInv, TypeOK
    <3>4. /\ icodes' \in [Reqs -> InvokeCode \cup {None}] /\ NoneBorn(icodes, icodes')
          /\ \A j \in Reqs : RowLasts(icodes[j], icodes'[j])
      BY <3>1, BuryTable, Graveyards DEF IInv, TypeOK
    <3>5. /\ cookies' \in [Reqs -> Cookie \cup {None}]
          /\ \A j \in Reqs : cookies[j] # None => cookies'[j] = cookies[j]
      BY <3>1, <3>2, <3>3 DEF IInv, TypeOK
    <3> QED BY <3>4, <3>5 DEF InvokeCallback, IInv, TypeOK, Tables, Lasting, RowLasts, UseLasts
  <2> QED BY <2>1, <2>2
<1>2. \A q \in Reqs \ {r} : Still(q)
  BY DEF InvokeCallback, Goto, Comes, world, tables, signed, reg, IInv, TypeOK, Still
<1>3. TypeOK'
  BY <1>1 DEF InvokeCallback, Goto, Comes, world, tables, signed, reg, IInv, TypeOK, Tables, Places
<1>4. BornInv'
  BY <1>1 DEF InvokeCallback, Goto, Comes, world, tables, signed, reg, IInv, TypeOK, BornInv, PlaceInv,
       PlaceOf, NoneBorn, Takes
<1>5. PlaceInv'
  <2>1. PlaceOf(r)'
    BY <1>1, NoneAssumption DEF InvokeCallback, Goto, Comes, world, tables, signed, reg, IInv, TypeOK,
         BornInv, PlaceInv, PlaceOf, Held, Lasting, RowLasts
  <2> QED BY <1>1, <1>2, <2>1, PlaceLasts DEF PlaceInv
<1>6. GateInv'
  <2>1. GateOf(r)'
    BY DEF InvokeCallback, Goto, Comes, world, tables, signed, reg, IInv, TypeOK, GateOf, Checking
  <2>2. \A q \in Reqs \ {r} : GateOf(q)'
    BY <1>1, <1>2, GateLasts DEF InvokeCallback, world
  <2> QED BY <2>1, <2>2 DEF GateInv
<1>7. TimeInv'
  <2>1. /\ kind[r] = None /\ kind' = kind /\ creds' = creds /\ now' = now /\ now \in Nat
        /\ at' = at /\ tokens' = tokens /\ tokens[r] = None /\ pc'[r] # "sign"
    BY DEF InvokeCallback, Comes, Goto, world, signed, IInv, PlaceInv, PlaceOf, TypeOK, BornInv
  <2>2. \A q \in Reqs : kind'[q] = "mint" => kind[q] = "mint" /\ key'[q] = key[q] /\ at'[q] = at[q]
    BY <1>2, <2>1, NoneAssumption DEF Still, Kinds
  <2> QED BY <1>1, <2>1, <2>2, TimesLast
<1>8. TraceInv'
  <2>1. /\ kind[r] = None /\ kind' = kind /\ creds' = creds /\ now' = now /\ now \in Nat
        /\ at' = at /\ tokens' = tokens /\ tokens[r] = None /\ pc'[r] # "sign"
    BY DEF InvokeCallback, Comes, Goto, world, signed, IInv, PlaceInv, PlaceOf, TypeOK, BornInv
  <2> QED BY <1>1, <1>2, <2>1, TracesLast, NoneAssumption DEF Still, Kinds
<1>9. CLIStep /\ InvokeStep
  <2>1. /\ creds' = creds /\ codes' = codes /\ creds[r] = None /\ cookies[r] = None
        /\ pc[r] = "start" /\ pc'[r] # "create"
    BY DEF InvokeCallback, Comes, Goto, IInv, TypeOK, BornInv
  <2>2. CLIQuiet
    BY <1>2, <2>1 DEF CLIQuiet, NoneBorn, ExchangesOf, Still
  <2>3. CASE ~ConsumableAt(k, f)
    <3>1. icodes' = icodes /\ cookies' = cookies
      BY <2>3 DEF InvokeCallback
    <3>2. InvokeQuiet
      BY <3>1 DEF InvokeQuiet, CookiesOf, NoneBorn
    <3> QED BY <2>2, <3>2 DEF CLIStep, InvokeStep
  <2>4. CASE ConsumableAt(k, f)
    <3>1. /\ icodes' = Bury(icodes, k) /\ cookies' = [cookies EXCEPT ![r] = NewCookie(k, f)]
          /\ Live(icodes, k)
      BY <2>4 DEF InvokeCallback, ConsumableAt
    <3>2. icodes'[k] # None /\ ~icodes'[k].live /\ \A j \in Reqs \ {k} : icodes'[j] = icodes[j]
      <4>1. icodes'[k] # None /\ ~Live(icodes', k)
        BY <1>1, <3>1, BuryTable, Graveyards DEF IInv, TypeOK, Live, Lasting, RowLasts
      <4> QED BY <3>1, <4>1 DEF Live, Bury, IInv, TypeOK
    <3>3. /\ cookies'[r] # None /\ cookies'[r].from = k
          /\ \A q \in Reqs \ {r} : cookies'[q] = cookies[q]
      <4>1. NewCookie(k, f).from = k /\ cookies'[r] = NewCookie(k, f)
        BY <3>1 DEF NewCookie, IInv, TypeOK
      <4>2. NewCookie(k, f) \in Cookie
        BY <3>1, TimesAssumption DEF NewCookie, Cookie, InvokeCode, Live, IInv, TypeOK
      <4> QED BY <3>1, <4>1, <4>2, NoneAssumption DEF IInv, TypeOK
    <3>4. CookiesOf(k) = {}
      BY <3>1 DEF IInv, UnusedInv
    <3>5. CookiesOf(k)' = {r} /\ \A c \in Reqs \ {k} : CookiesOf(c)' = CookiesOf(c)
      BY <2>1, <3>3, <3>4 DEF CookiesOf
    <3>6. InvokeUses(r, k)
      BY <3>1, <3>2, <3>5 DEF InvokeUses
    <3> QED BY <2>2, <3>6 DEF CLIStep, InvokeStep
  <2> QED BY <2>3, <2>4
<1>10. UnusedInv'
  BY <1>1, <1>9, UnusedLasts
<1>11. BarredStayOut'
  BY DEF InvokeCallback, Goto, Comes, world, tables, signed, reg, IInv, TypeOK, BarredStayOut, PlaceInv,
       PlaceOf
<1> QED BY <1>1, <1>2, <1>3, <1>4, <1>5, <1>6, <1>7, <1>8, <1>9, <1>10, <1>11 DEF IInv

\* A revoked credential keeps its times, dead.
LEMMA DeviceDeleteKeeps ==
    ASSUME IInv, route' = route, NEW r \in Reqs, NEW id \in Reqs \cup Apps, DeviceDelete(r, id)
    PROVE  IInv' /\ Lasting /\ CLIStep /\ InvokeStep
<1>1. Tables' /\ Lasting /\ UseLasts /\ NoneBorn(creds, creds')
  <2>1. creds' = creds \/ (id \in Reqs /\ creds' = Bury(creds, id))
    BY DEF DeviceDelete
  <2>2. CASE creds' = creds
    BY <2>2 DEF DeviceDelete, signed, IInv, TypeOK, Tables, Lasting, RowLasts, UseLasts, NoneBorn
  <2>3. CASE id \in Reqs /\ creds' = Bury(creds, id)
    <3>1. /\ creds' \in [Reqs -> Credential \cup {None}] /\ NoneBorn(creds, creds')
          /\ \A j \in Reqs : RowLasts(creds[j], creds'[j])
      BY <2>3, BuryTable, Graveyards DEF IInv, TypeOK
    <3>2. \A j \in Reqs : creds[j] # None => creds'[j].made = creds[j].made /\ creds'[j].used = creds[j].used
      BY <2>3 DEF Bury, IInv, TypeOK, Credential
    <3> QED BY <3>1, <3>2 DEF DeviceDelete, signed, IInv, TypeOK, Tables, Lasting, RowLasts, UseLasts
  <2> QED BY <2>1, <2>2, <2>3
<1>2. \A q \in Reqs \ {r} : Still(q)
  BY DEF DeviceDelete, Goto, Approved, world, tables, signed, reg, IInv, TypeOK, Still
<1>3. TypeOK'
  <2>1. late' \subseteq Reqs
    BY DEF DeviceDelete, IInv, TypeOK, Untouched
  <2> QED BY <1>1, <2>1 DEF DeviceDelete, Goto, Approved, world, tables, signed, reg, IInv, TypeOK,
                            Tables, Places
<1>4. BornInv'
  BY <1>1 DEF DeviceDelete, Goto, Approved, world, tables, signed, reg, IInv, TypeOK, BornInv, PlaceInv,
       PlaceOf, NoneBorn, Takes
<1>5. PlaceInv'
  <2>1. PlaceOf(r)'
    BY <1>1, NoneAssumption DEF DeviceDelete, Goto, Approved, world, tables, signed, reg, IInv, TypeOK,
         BornInv, PlaceInv, PlaceOf, Held, Lasting, RowLasts
  <2> QED BY <1>1, <1>2, <2>1, PlaceLasts DEF PlaceInv
<1>6. GateInv'
  <2>1. GateOf(r)'
    BY DEF DeviceDelete, Goto, Approved, world, tables, signed, reg, IInv, TypeOK, GateOf, Checking
  <2>2. \A q \in Reqs \ {r} : GateOf(q)'
    BY <1>1, <1>2, GateLasts DEF DeviceDelete, world
  <2> QED BY <2>1, <2>2 DEF GateInv
<1>7. TimeInv'
  BY <1>1, TimesLast, TimesAssumption DEF DeviceDelete, Goto, Approved, world, tables, signed, reg,
       IInv, TypeOK, NoneBorn
<1>8. TraceInv'
  BY <1>1, TracesLast, NoneAssumption DEF DeviceDelete, Goto, Approved, world, tables, signed, reg,
       IInv, TypeOK, PlaceInv, PlaceOf
<1>9. CLIStep /\ InvokeStep
  <2>1. \A q \in Reqs : creds'[q] # None <=> creds[q] # None
    BY <1>1 DEF NoneBorn, Lasting, RowLasts
  <2>2. /\ codes' = codes /\ icodes' = icodes /\ cookies' = cookies /\ key' = key
        /\ pc[r] # "create" /\ pc'[r] # "create"
    BY DEF DeviceDelete, Goto, Approved, world, tables, signed, reg, IInv, TypeOK
  <2> QED BY <1>2, <2>1, <2>2 DEF CLIStep, InvokeStep, CLIQuiet, InvokeQuiet, NoneBorn, ExchangesOf,
       CookiesOf, Still
<1>10. UnusedInv'
  BY <1>1, <1>9, UnusedLasts
<1>11. BarredStayOut'
  BY DEF DeviceDelete, Goto, Approved, world, tables, signed, reg, IInv, TypeOK, BarredStayOut,
       PlaceInv, PlaceOf
<1> QED BY <1>1, <1>2, <1>3, <1>4, <1>5, <1>6, <1>7, <1>8, <1>9, <1>10, <1>11 DEF IInv

-----------------------------------------------------------------------------
(***************************************************************************)
(* The theorems.                                                           *)
(***************************************************************************)

\* No request has come.
LEMMA InitHolds == Init => IInv
<1> SUFFICES ASSUME Init PROVE IInv
  OBVIOUS
<1>1. PICK routes \in [Reqs -> Routes] : InitWith(routes)
  BY DEF Init
<1>2. TypeOK
  BY <1>1, TimesAssumption DEF InitWith, TypeOK, Nothing, Places
<1> QED BY <1>1, <1>2, NoneAssumption DEF InitWith, IInv, Nothing, BornInv, PlaceInv, PlaceOf,
           GateInv, GateOf, Checking, TimeInv, TraceInv, UnusedInv, ExchangesOf, CookiesOf,
           BarredStayOut, Kinds

\* Every step keeps the invariant and what lasts, and is a step of the codes.
LEMMA NextKeeps ==
    ASSUME IInv, [Next]_vars
    PROVE  IInv' /\ Lasting /\ CLIStep /\ InvokeStep
<1>1. CASE UNCHANGED vars
  <2>1. /\ UNCHANGED <<world, tables, signed, route, pc, reg>>
    BY <1>1 DEF vars
  <2>2. /\ UNCHANGED <<now, changes, status, addr, rules, vouched, admitted, late>>
        /\ UNCHANGED <<sessions, codes, creds, icodes, apps, cookies, tokens, route, pc>>
        /\ UNCHANGED <<kind, key, fn, usr, at, dev>>
    BY <2>1 DEF world, tables, signed, reg
  <2>3. Lasting /\ CLIStep /\ InvokeStep
    BY <2>2 DEF Lasting, RowLasts, CLIStep, InvokeStep, CLIQuiet, InvokeQuiet, NoneBorn, ExchangesOf,
         CookiesOf
  <2>4. TypeOK' /\ BornInv' /\ TimeInv' /\ TraceInv' /\ BarredStayOut'
    BY <2>2 DEF IInv, TypeOK, BornInv, TimeInv, TraceInv, BarredStayOut, Touches
  <2>5. PlaceInv' /\ GateInv'
    BY <2>2, <2>3, PlaceLasts, GateLasts DEF PlaceInv, GateInv, Still
  <2>6. UnusedInv'
    BY <2>3, UnusedLasts
  <2> QED BY <2>3, <2>4, <2>5, <2>6 DEF IInv
<1>2. CASE Next
  <2>1. Step /\ route' = route
    BY <1>2 DEF Next
  <2> QED BY <2>1, TickKeeps, ChangeKeeps, SweepKeeps, PresentKeeps, LoadUserKeeps, CheckRulesKeeps,
             RefreshKeeps, TouchKeeps, SignKeeps, AuthorizeKeeps, CreateCredentialKeeps, LoginKeeps,
             LogoutKeeps, ExchangeKeeps, InvokeStartKeeps, InvokeCallbackKeeps, DeviceDeleteKeeps
          DEF Step
<1> QED BY <1>1, <1>2

\* The invariant holds in every reachable state.
THEOREM Invariance == Spec => []IInv
<1>1. IInv /\ [Next]_vars => IInv'
  BY NextKeeps
<1> QED BY <1>1, InitHolds, PTL DEF Spec

\* Every table and register has its type, whatever requests come: rows are
\* updated and deleted only where there are rows, and addresses stay unique.
THEOREM TypeCorrect == Spec => []TypeOK
<1>1. IInv => TypeOK
  BY DEF IInv
<1> QED BY <1>1, Invariance, PTL

\* However users and rules change between the statements of a request, nobody
\* is let in who was barred from beginning to end.
THEOREM BarredNeverEnter == Spec => []BarredStayOut
<1>1. IInv => BarredStayOut
  BY DEF IInv
<1> QED BY <1>1, Invariance, PTL

\* A mint whose credential was revoked before it touched the row is on its way
\* to a refusal, and the row is dead.
LateOf(r) ==
    /\ kind[r] = "mint" /\ ~Live(creds, key[r])
    /\ pc[r] \in {"user", "rules", "touch", "failed"}

LateInv == \A r \in late : LateOf(r)

\* Such a mint goes on to its refusal; in particular its touch fails.
LEMMA LateGoesOn ==
    ASSUME IInv, Step, NEW q \in Reqs, LateOf(q)
    PROVE  /\ kind'[q] = "mint" /\ key'[q] = key[q]
           /\ pc'[q] \in {"user", "rules", "touch", "failed"}
<1> USE DEF Goto, world, tables, signed, reg, IInv, TypeOK, LateOf
<1>1. CASE Tick \/ Change \/ Sweep
  BY <1>1 DEF Tick, Change, Sweep
<1>2. ASSUME NEW r \in Reqs, NEW k \in Reqs, NEW how \in Kinds, NEW f \in Functions \cup {None},
             Present(r, how, k, f)
      PROVE  /\ kind'[q] = "mint" /\ key'[q] = key[q]
             /\ pc'[q] \in {"user", "rules", "touch", "failed"}
  BY <1>2 DEF Present
<1>3. ASSUME NEW r \in Reqs, LoadUser(r) \/ CheckRules(r) \/ Refresh(r) \/ Touch(r) \/ Sign(r)
      PROVE  /\ kind'[q] = "mint" /\ key'[q] = key[q]
             /\ pc'[q] \in {"user", "rules", "touch", "failed"}
  <2>1. kind' = kind /\ key' = key
    BY <1>3 DEF LoadUser, CheckRules, Refresh, Touch, Sign
  <2>2. CASE LoadUser(r)
    BY <2>1, <2>2 DEF LoadUser
  <2>3. CASE CheckRules(r)
    BY <2>1, <2>3 DEF CheckRules
  <2>4. CASE Refresh(r) \/ Sign(r)
    BY <2>1, <2>4 DEF Refresh, Sign
  <2>5. CASE Touch(r)
    BY <2>1, <2>5 DEF Touch
  <2> QED BY <1>3, <2>2, <2>3, <2>4, <2>5
<1>4. ASSUME NEW r \in Reqs, Authorize(r) \/ CreateCredential(r)
      PROVE  /\ kind'[q] = "mint" /\ key'[q] = key[q]
             /\ pc'[q] \in {"user", "rules", "touch", "failed"}
  BY <1>4 DEF Authorize, Approved, CreateCredential
<1>5. ASSUME NEW r \in Reqs, (\E u \in Users : Login(r, u)) \/ \E k \in Reqs : Logout(r, k) \/ Exchange(r, k)
      PROVE  /\ kind'[q] = "mint" /\ key'[q] = key[q]
             /\ pc'[q] \in {"user", "rules", "touch", "failed"}
  BY <1>5 DEF Login, Logout, Exchange, Comes
<1>6. ASSUME NEW r \in Reqs, NEW f \in Functions,
             InvokeStart(r, f) \/ \E k \in Reqs : InvokeCallback(r, k, f)
      PROVE  /\ kind'[q] = "mint" /\ key'[q] = key[q]
             /\ pc'[q] \in {"user", "rules", "touch", "failed"}
  BY <1>6 DEF InvokeStart, InvokeCallback, Comes
<1>7. ASSUME NEW r \in Reqs, NEW id \in Reqs \cup Apps, DeviceDelete(r, id)
      PROVE  /\ kind'[q] = "mint" /\ key'[q] = key[q]
             /\ pc'[q] \in {"user", "rules", "touch", "failed"}
  BY <1>7 DEF DeviceDelete, Approved
<1> QED BY <1>1, <1>2, <1>3, <1>4, <1>5, <1>6, <1>7 DEF Step

\* Only a revocation makes a mint late, and it kills the row of that mint.
LEMMA LateBegins ==
    ASSUME IInv, Step, NEW q \in late', q \notin late
    PROVE  LateOf(q)'
<1> USE DEF world, tables, signed, reg
<1>1. PICK r \in Reqs, id \in Reqs \cup Apps : DeviceDelete(r, id)
  <2>1. ~(Tick \/ Change \/ Sweep)
    BY DEF Tick, Change, Sweep
  <2>2. \A r, k \in Reqs, how \in Kinds, f \in Functions \cup {None} : ~Present(r, how, k, f)
    BY DEF Present
  <2>3. \A r \in Reqs : ~(LoadUser(r) \/ CheckRules(r) \/ Refresh(r) \/ Touch(r) \/ Sign(r))
    BY DEF LoadUser, CheckRules, Refresh, Touch, Sign
  <2>4. \A r \in Reqs : ~(Authorize(r) \/ CreateCredential(r))
    BY DEF Authorize, CreateCredential
  <2>5. \A r \in Reqs, u \in Users : ~Login(r, u)
    BY DEF Login
  <2>6. \A r, k \in Reqs : ~(Logout(r, k) \/ Exchange(r, k))
    BY DEF Logout, Exchange
  <2>7. \A r, k \in Reqs, f \in Functions : ~InvokeStart(r, f) /\ ~InvokeCallback(r, k, f)
    BY DEF InvokeStart, InvokeCallback
  <2> QED BY <2>1, <2>2, <2>3, <2>4, <2>5, <2>6, <2>7 DEF Step
<1>2. RevokesCLI(usr[r].id, id) /\ q \in Untouched(id)
  BY <1>1 DEF DeviceDelete
<1>3. id \in Reqs
  BY <1>2, NoneAssumption DEF Untouched, IInv, PlaceInv, PlaceOf, Held
<1>4. ~Live(creds', id)
  <2>1. creds' = Bury(creds, id) /\ creds \in [Reqs -> Credential \cup {None}]
    BY <1>1, <1>2, <1>3 DEF DeviceDelete, IInv, TypeOK
  <2> QED BY ONLY <1>3, <2>1, BuryTable, Graveyards
<1>5. kind'[q] = "mint" /\ key'[q] = id /\ pc'[q] \in {"user", "rules", "touch"}
  BY <1>1, <1>2 DEF DeviceDelete, Approved, Untouched, Goto, IInv, TypeOK
<1> QED BY <1>4, <1>5 DEF LateOf, Live

\* What makes a mint late stays true of it.
LEMMA LateKeeps ==
    ASSUME IInv, LateInv, [Next]_vars
    PROVE  LateInv'
<1>1. CASE UNCHANGED vars
  BY <1>1 DEF vars, world, tables, reg, LateInv, LateOf, Live
<1>2. CASE Next
  <2>1. Step
    BY <1>2 DEF Next
  <2>2. ASSUME NEW q \in late', q \in late
        PROVE  LateOf(q)'
    <3>1. q \in Reqs /\ LateOf(q)
      BY <2>2 DEF LateInv, IInv, TypeOK
    <3>2. key[q] \in Reqs /\ creds[key[q]] # None /\ ~creds[key[q]].live
      BY <3>1, NoneAssumption DEF LateOf, Live, Kinds, IInv, PlaceInv, PlaceOf, Held
    <3>3. Lasting
      BY <1>2, NextKeeps
    <3>4. ~creds'[key[q]].live
      BY <3>2, <3>3 DEF Lasting, RowLasts
    <3>5. kind'[q] = "mint" /\ key'[q] = key[q] /\ pc'[q] \in {"user", "rules", "touch", "failed"}
      BY <2>1, <3>1, LateGoesOn
    <3> QED BY <3>4, <3>5 DEF LateOf, Live
  <2> QED BY <2>1, <2>2, LateBegins DEF LateInv
<1> QED BY <1>1, <1>2

\* A mint whose credential is revoked before it has touched the row signs
\* nothing, and every access token was preceded by a successful Touch of its
\* credential's row, also when several requests mint from one credential.
THEOREM MintsAreTraced == Spec => []RevokedMintsNothing
<1>1. Init => LateInv
  BY DEF Init, InitWith, LateInv
<1>2. IInv /\ LateInv /\ [Next]_vars => LateInv'
  BY LateKeeps
<1>3. IInv /\ LateInv => RevokedMintsNothing
  BY DEF IInv, BornInv, TraceInv, LateInv, LateOf, RevokedMintsNothing
<1> QED BY <1>1, <1>2, <1>3, Invariance, PTL DEF Spec

\* A credential is used no earlier than it was made, also when mints that came at
\* different times touch its row in any order: its sliding window never ends
\* before the one it was created with.
THEOREM WindowsStartAtCreation == Spec => []TimeInv
<1>1. IInv => TimeInv
  BY DEF IInv
<1> QED BY <1>1, Invariance, PTL

\* Logout, use, revocation and the sweep are final.
THEOREM DeletionIsFinal == Spec => DeadStaysDead
<1>1. Lasting => \A r \in Reqs : \A t \in {<<sessions, sessions'>>, <<codes, codes'>>,
                                 <<creds, creds'>>, <<icodes, icodes'>>} :
          t[1][r] # None /\ ~t[1][r].live => ~t[2][r].live
  BY DEF Lasting, RowLasts
<1>2. IInv /\ [Next]_vars => [\A r \in Reqs : \A t \in {<<sessions, sessions'>>, <<codes, codes'>>,
                                 <<creds, creds'>>, <<icodes, icodes'>>} :
          t[1][r] # None /\ ~t[1][r].live => ~t[2][r].live]_vars
  BY <1>1, NextKeeps
<1> QED BY <1>2, Invariance, PTL DEF Spec, DeadStaysDead

\* The codes of the command line and of the function hosts implement one-time
\* codes: every step of the server issues codes, loses some, or has one request
\* profit from one.
THEOREM CodesImplementSingleUse == Spec => CodesAreSingleUse
<1>1. Init => CLICodes!Init /\ InvokeCodes!Init
  BY DEF Init, InitWith, Nothing, CLICodes!Init, InvokeCodes!Init, Alive, Dead, Live,
         ExchangesOf, CookiesOf
<1>2. IInv /\ [Next]_vars => CLICodes!Next /\ InvokeCodes!Next
  BY NextKeeps, CLISteps, InvokeSteps
<1> QED BY <1>1, <1>2, Invariance, PTL DEF Spec, CodesAreSingleUse, CLICodes!Spec, InvokeCodes!Spec

==============================================================================
