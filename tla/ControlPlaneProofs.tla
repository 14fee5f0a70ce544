------------------------- MODULE ControlPlaneProofs --------------------------
(***************************************************************************)
(* Machine-checked proofs about ControlPlane, for any users, functions and *)
(* calls, any requests, any number of changes of users, members and        *)
(* settings, and any limits.                                               *)
(***************************************************************************)
EXTENDS ControlPlane, FiniteSetTheorems, TLAPS

(***************************************************************************)
(* The inductive invariant, in parts.  Below, k is the record of a call, r *)
(* its request and s what it has been able to find since it began.         *)
(***************************************************************************)

Underway(k) == k.pc \notin {"idle", "done", "over"}

\* Where a call acts for somebody, where it was found to be permitted, and where it
\* goes by the row of a function.
Acting == {"op", "view", "settings", "manage", "show", "act", "audit", "listing", "count",
           "write", "serve"}
Permitted == {"show", "act", "audit", "listing", "count", "write", "serve"}
Resolved == {"view", "settings", "manage", "show", "act"}
Changing == {"rollback", "delete", "setenv", "deploy"}

ActiveAdmin == [role |-> "admin", status |-> "active"]
Unwritten == [kept |-> 0, total |-> 0, cut |-> FALSE]
Written == [kept : Nat, total : Nat, cut : BOOLEAN]

Asks(r) == r \in Request /\ (r.op \in {"rollback", "deploy"} => r.ver # None)

\* Could, of a request and what was found.
Allowed(r, s, ok) ==
    \E row \in s.rows, w \in s.roles, m \in s.mcd, a \in s.auf : May(r, row, w, m, a) = ok

\* a is who asks, as the row said while the user was active, at the right door.
Known(r, s, a) ==
    /\ a \in Who /\ a.id = r.user
    /\ \E row \in s.rows : row.status = "active" /\ row.role = a.role
    /\ Opens(r)

\* The caller could see function f at some time during the call.
Viewed(r, s, f) ==
    \E row \in s.rows, w \in s.roles :
        May([r EXCEPT !.op = "get", !.fn = f], row, w, FALSE, FALSE)

\* The user that is changed was not the only active admin all the while.
NotAlone(r, s) == \E A \in s.admins : A # {r.target}

\* The row that is written back is still one of an active admin.
Stays(k) ==
    /\ k.row = ActiveAdmin
    /\ k.req.to.role \in {None, "admin"} /\ k.req.to.status \in {None, "active"}

\* What a call under way has got when it is at pc.
PlaceAt(k, s, pc) ==
    LET r == k.req IN
    /\ Asks(r)
    /\ pc \in Acting => Known(r, s, k.actor)
    /\ pc = "guest" => Known(r, s, k.token)
    /\ pc = "view" => r.op \in FnOps \ {"setenv"}
    /\ pc \in {"settings", "manage"} =>
          /\ r.op \in (FnOps \ Reads) \cup {"deploy"}
          /\ r.op \in FnOps \ {"setenv"} => Viewed(r, s, r.fn)
          /\ r.op = "deploy" => k.auf \in s.auf
    /\ pc = "manage" => k.mcd \in s.mcd
    /\ pc = "show" => r.op \in Reads \cup {"files"}
    /\ pc = "act" => r.op \in Changing
    /\ pc = "audit" => r.op \in Changing \cup {"patch"}
    /\ pc = "listing" => r.op = "listOwner" /\ Viewed(r, s, r.fn)
    /\ pc = "serve" => r.op = "invoke"
    /\ pc \in {"count", "write"} => r.op = "patch" /\ k.row \in UserRow
    /\ pc = "count" => k.row = ActiveAdmin \/ NotAlone(r, s)
    /\ pc = "write" => Stays(k) \/ NotAlone(r, s)
    /\ pc \in Permitted => Allowed(r, s, TRUE)

\* Why a call may be given answer a.
Reason(r, s, a) ==
    /\ a = "ok" => Allowed(r, s, TRUE) /\ Opens(r)
    /\ a = "forbidden" =>
          /\ Allowed(r, s, FALSE)
          /\ r.op \in FnOps \ {"setenv"} => Viewed(r, s, r.fn)
    /\ a = "notFound" =>
          Allowed(r, s, FALSE) \/ \E f \in s.fn : f = None \/ (r.ver # None /\ r.ver \notin f.rows)
    /\ a = "pending" => \E row \in s.rows : row.status = "pending"
    /\ a = "unauthorized" => ~Opens(r) \/ \E row \in s.rows : row.status # "active"
    /\ a = "conflict" =>
          IF r.op = "patch" THEN \E A \in s.admins : A \subseteq {r.target}
          ELSE None \in s.fn

\* A call under way has what its place needs, and an answer has its reason.
CallOf(k, s) ==
    /\ Underway(k) => PlaceAt(k, s, k.pc)
    /\ k.pc # "done" => k.shown = {}
    /\ k.pc = "done" =>
          /\ Asks(k.req) /\ Reason(k.req, s, k.ans)
          /\ k.ans = "ok" /\ k.req.op \in Lists => \A f \in k.shown : Viewed(k.req, s, f)

CallInv == \A c \in Calls : CallOf(call[c], seen[c])

\* What a call under way may find now is among what it has been able to find.
Watched(r, s) ==
    /\ users[r.user] \in s.rows /\ members[r.user] \in s.roles
    /\ conf.memberCanDeploy \in s.mcd /\ conf.allowUserFunctions \in s.auf
    /\ fns[r.fn] \in s.fn /\ ActiveAdmins \in s.admins

WatchInv == \A c \in Calls : Underway(call[c]) => Watched(call[c].req, seen[c])

\* v is a version of f, there from the start or made by a deploy of f.
Home(cl, v, f) ==
    \/ v \in Vers /\ VersionOf[v] = f
    \/ /\ v \in Calls /\ cl[v].pc \in {"audit", "done", "over"}
       /\ Asks(cl[v].req) /\ cl[v].req.op = "deploy" /\ cl[v].req.fn = f

\* The row that a call has read is of function f, of which nothing has been lost but all.
ReadOf(cl, f, row) ==
    /\ row \in FnRow /\ row.active \in row.rows /\ Home(cl, row.active, f)
    /\ fns[f] # None => row.rows \subseteq fns[f].rows

\* Calls have read, and show, versions of their function only.
RowOf(cl, c) ==
    /\ cl[c].pc \in Resolved /\ cl[c].req.op \in FnOps => ReadOf(cl, cl[c].req.fn, cl[c].row)
    /\ cl[c].pc = "done" /\ cl[c].ans = "ok" /\ cl[c].req.op \in {"get", "files"} =>
          \A v \in cl[c].shown : Home(cl, v, cl[c].req.fn)

RowInv == \A c \in Calls : RowOf(call, c)

\* Functions have versions of their own only.
HomeInv == \A f \in Fns : fns[f] # None => \A v \in fns[f].rows : Home(call, v, f)

\* What is written stays within its cap, and is called cut when it is.
OutOf(k) ==
    \/ k.out = Unwritten
    \/ k.pc = "done" /\ k.req.op = "files" /\ k.out \in UNION {Returned(FileSizes[v]) : v \in Vers}
    \/ /\ k.pc \in {"serve", "done"} /\ k.req.op = "invoke" /\ k.out \in Written
       /\ k.out.kept = IF k.out.total > BodyCap THEN BodyCap ELSE k.out.total
       /\ k.out.cut <=> k.out.total > BodyCap

OutInv == \A c \in Calls : OutOf(call[c])

IInv ==
    /\ TypeOK
    /\ CallInv
    /\ WatchInv
    /\ RowInv
    /\ HomeInv
    /\ OutInv

-----------------------------------------------------------------------------
(***************************************************************************)
(* What all steps have in common.                                          *)
(***************************************************************************)

\* What t says a call was able to find is what s says, and more.
Grows(s, t) ==
    /\ s.rows \subseteq t.rows /\ s.roles \subseteq t.roles /\ s.mcd \subseteq t.mcd
    /\ s.auf \subseteq t.auf /\ s.fn \subseteq t.fn /\ s.admins \subseteq t.admins

\* No reason is lost when more is seen.
LEMMA GrowsKeepsAllowed ==
    ASSUME NEW r, NEW s, NEW t, NEW ok, Grows(s, t), Allowed(r, s, ok)
    PROVE  Allowed(r, t, ok)
BY DEF Grows, Allowed

\* What could be seen could be seen.
LEMMA GrowsKeepsViewed ==
    ASSUME NEW r, NEW s, NEW t, NEW f, Grows(s, t), Viewed(r, s, f)
    PROVE  Viewed(r, t, f)
BY DEF Grows, Viewed

\* Who was known stays known.
LEMMA GrowsKeepsKnown ==
    ASSUME NEW r, NEW s, NEW t, NEW a, Grows(s, t), Known(r, s, a)
    PROVE  Known(r, t, a)
BY DEF Grows, Known

\* A call has what its place needs, whatever else it gets to see.
LEMMA GrowsKeepsPlace ==
    ASSUME NEW k, NEW s, NEW t, NEW pc, Grows(s, t), PlaceAt(k, s, pc)
    PROVE  PlaceAt(k, t, pc)
<1>1. NotAlone(k.req, s) => NotAlone(k.req, t) BY DEF Grows, NotAlone
<1>2. k.auf \in s.auf => k.auf \in t.auf BY DEF Grows
<1>3. k.mcd \in s.mcd => k.mcd \in t.mcd BY DEF Grows
<1> QED BY <1>1, <1>2, <1>3, GrowsKeepsAllowed, GrowsKeepsViewed, GrowsKeepsKnown DEF PlaceAt

\* An answer keeps its reason, whatever else there is to see.
LEMMA GrowsKeepsReason ==
    ASSUME NEW r, NEW s, NEW t, NEW a, Grows(s, t), Reason(r, s, a)
    PROVE  Reason(r, t, a)
<1>1. s.rows \subseteq t.rows /\ s.fn \subseteq t.fn /\ s.admins \subseteq t.admins BY DEF Grows
<1>2. (\E f \in s.fn : f = None \/ (r.ver # None /\ r.ver \notin f.rows)) =>
      \E f \in t.fn : f = None \/ (r.ver # None /\ r.ver \notin f.rows)
      BY <1>1
<1>3. (\E A \in s.admins : A \subseteq {r.target}) => \E A \in t.admins : A \subseteq {r.target}
      BY <1>1
<1> QED BY <1>1, <1>2, <1>3, GrowsKeepsAllowed, GrowsKeepsViewed DEF Reason

\* So the others are not disturbed by what a step lets them see.
LEMMA GrowsKeepsCall ==
    ASSUME NEW k, NEW s, NEW t, Grows(s, t), CallOf(k, s)
    PROVE  CallOf(k, t)
BY GrowsKeepsPlace, GrowsKeepsReason, GrowsKeepsViewed DEF CallOf

\* Of functions nothing is lost but all.
Lasting == \A f \in Fns : fns'[f] # None => fns[f] # None /\ fns[f].rows \subseteq fns'[f].rows

\* A step of call c, or of nobody, keeps the invariant if it does so for c, lets the
\* others see what changes, and gives functions versions of their own only.
LEMMA StepKeeps ==
    ASSUME IInv, NEW c \in Calls, TypeOK',
           \A q \in Calls \ {c} : call'[q] = call[q] /\ Grows(seen[q], seen'[q]),
           \A q \in Calls : Underway(call'[q]) => Watched(call[q].req, seen[q])',
           call[c].pc \in {"audit", "done", "over"} /\ call[c].req \in Request
              /\ call[c].req.op = "deploy" =>
                 call'[c].pc \in {"audit", "done", "over"} /\ call'[c].req = call[c].req,
           CallOf(call'[c], seen'[c]), RowOf(call, c)', OutOf(call'[c]), Lasting, HomeInv'
    PROVE  IInv'
<1>1. CallInv'
  <2> SUFFICES ASSUME NEW q \in Calls PROVE CallOf(call'[q], seen'[q]) BY DEF CallInv
  <2>1. CASE q = c BY <2>1
  <2>2. CASE q # c
    <3>1. call'[q] = call[q] /\ Grows(seen[q], seen'[q]) BY <2>2
    <3>2. CallOf(call[q], seen[q]) BY DEF IInv, CallInv
    <3> QED BY <3>1, <3>2, GrowsKeepsCall
  <2> QED BY <2>1, <2>2
<1>2. WatchInv' BY DEF WatchInv
<1>3. ASSUME NEW v, NEW f, Home(call, v, f) PROVE Home(call', v, f)
      BY <1>3 DEF Home, Asks
<1>4. RowInv'
  <2> SUFFICES ASSUME NEW q \in Calls, q # c PROVE RowOf(call, q)' BY DEF RowInv
  <2>1. call'[q] = call[q] /\ RowOf(call, q) BY DEF IInv, RowInv
  <2>2. ASSUME call[q].pc \in Resolved, call[q].req.op \in FnOps
        PROVE  ReadOf(call, call[q].req.fn, call[q].row)'
    <3>1. ReadOf(call, call[q].req.fn, call[q].row) BY <2>1, <2>2 DEF RowOf
    <3>2. call[q].req.fn \in Fns
          BY <2>2 DEF IInv, CallInv, CallOf, Underway, Resolved, PlaceAt, Asks, Request
    <3>3. fns'[call[q].req.fn] # None =>
             /\ fns[call[q].req.fn] # None
             /\ fns[call[q].req.fn].rows \subseteq fns'[call[q].req.fn].rows
          BY <3>2 DEF Lasting
    <3> QED BY <3>1, <3>3, <1>3, <2>1 DEF ReadOf
  <2>3. ASSUME call[q].pc = "done", call[q].ans = "ok", call[q].req.op \in {"get", "files"}
        PROVE  \A v \in call[q].shown : Home(call', v, call[q].req.fn)
        BY <2>1, <2>3, <1>3 DEF RowOf
  <2> QED BY <2>1, <2>2, <2>3 DEF RowOf
<1>5. OutInv' BY DEF IInv, OutInv
<1> QED BY <1>1, <1>2, <1>4, <1>5 DEF IInv

(***************************************************************************)
(* Most steps change the record of their call and nothing that others see. *)
(***************************************************************************)

\* Such a step keeps the invariant if the new record is as it should be.
LEMMA QuietKeeps ==
    ASSUME IInv, NEW c \in Calls, NEW k \in Call, call' = [call EXCEPT ![c] = k],
           UNCHANGED <<store, mcp, seen>>, dash' \in {"none", "pool", "err"},
           Underway(call[c]), k.req = call[c].req, k.pc \notin {"idle", "over"},
           k.pc = "done" <=> k.ans # None, call[c].pc = "audit" => k.pc = "done",
           CallOf(k, seen[c]), RowOf(call, c)', OutOf(k)
    PROVE  IInv'
<1>1. call' \in [Calls -> Call] /\ call'[c] = k /\ \A q \in Calls \ {c} : call'[q] = call[q]
      BY DEF IInv, TypeOK
<1>2. TypeOK' BY <1>1 DEF IInv, TypeOK, store, mcp
<1>3. \A q \in Calls : Grows(seen[q], seen'[q]) BY DEF Grows
<1>4. \A q \in Calls : Watched(call[q].req, seen[q])' <=> Watched(call'[q].req, seen[q])
      BY DEF Watched, store, ActiveAdmins
<1>5. \A q \in Calls : Underway(call'[q]) => Watched(call'[q].req, seen[q])
  <2> SUFFICES ASSUME NEW q \in Calls, Underway(call'[q]) PROVE Watched(call'[q].req, seen[q])
      OBVIOUS
  <2>1. Underway(call[q]) /\ call'[q].req = call[q].req BY <1>1
  <2> QED BY <2>1 DEF IInv, WatchInv
<1>6. Lasting BY DEF Lasting, store
<1>7. ASSUME NEW v, NEW f, Home(call, v, f) PROVE Home(call', v, f)
      BY <1>7, <1>1 DEF Home, Underway
<1>8. HomeInv' BY <1>7 DEF IInv, HomeInv, store
<1>9. CallOf(call'[c], seen'[c]) /\ OutOf(call'[c]) BY <1>1
<1>10. call[c].pc \in {"audit", "done", "over"} => call'[c].pc \in {"audit", "done", "over"}
       BY <1>1 DEF Underway
<1> QED BY <1>1, <1>2, <1>3, <1>4, <1>5, <1>6, <1>8, <1>9, <1>10, StepKeeps

\* A call goes on to the next place with what it needs there.
LEMMA MoveKeeps ==
    ASSUME IInv, NEW c \in Calls, NEW k \in Call, call' = [call EXCEPT ![c] = k],
           UNCHANGED <<store, mcp, seen>>, dash' \in {"none", "pool", "err"},
           Underway(call[c]), call[c].pc \notin {"audit", "serve"}, Underway(k),
           k.req = call[c].req, k.ans = call[c].ans, k.out = call[c].out, k.shown = call[c].shown,
           PlaceAt(k, seen[c], k.pc),
           k.pc \in Resolved /\ k.req.op \in FnOps => ReadOf(call, k.req.fn, k.row)
    PROVE  IInv'
<1>1. call'[c] = k /\ \A q \in Calls \ {c} : call'[q] = call[q] BY DEF IInv, TypeOK
<1>2. k.pc \notin {"idle", "done", "over"} BY DEF Underway
<1>3. k.ans = None BY DEF IInv, TypeOK, Underway
<1>4. k.shown = {} BY DEF IInv, CallInv, CallOf, Underway
<1>5. CallOf(k, seen[c]) BY <1>2, <1>4 DEF CallOf
<1>6. OutOf(k) BY DEF IInv, OutInv, OutOf, Underway
<1>7. ASSUME NEW v, NEW f, Home(call, v, f) PROVE Home(call', v, f)
      BY <1>7, <1>1 DEF Home, Underway
<1>8. RowOf(call, c)'
  <2>1. ASSUME k.pc \in Resolved, k.req.op \in FnOps PROVE ReadOf(call, k.req.fn, k.row)'
        BY <2>1, <1>1, <1>7 DEF ReadOf, store
  <2> QED BY <2>1, <1>1, <1>2 DEF RowOf
<1> QED BY <1>2, <1>3, <1>5, <1>6, <1>8, QuietKeeps

\* The same, when nothing but the place changes.
LEMMA GotoKeeps ==
    ASSUME IInv, NEW c \in Calls, NEW p \in Places \ {"idle", "done", "over"}, Goto(c, p),
           UNCHANGED <<store, mcp, dash, seen>>, Underway(call[c]),
           call[c].pc \notin {"audit", "serve"},
           PlaceAt(call[c], seen[c], p),
           p \in Resolved /\ call[c].req.op \in FnOps => call[c].pc \in Resolved
    PROVE  IInv'
<1> DEFINE k == [call[c] EXCEPT !.pc = p]
<1>1. call \in [Calls -> Call] /\ call[c] \in Call BY DEF IInv, TypeOK
<1>2. k \in Call BY <1>1 DEF Call
<1>3. call' = [call EXCEPT ![c] = k] BY <1>1 DEF Goto
<1>4. /\ k.pc = p /\ k.req = call[c].req /\ k.ans = call[c].ans /\ k.out = call[c].out
      /\ k.shown = call[c].shown /\ k.row = call[c].row /\ k.actor = call[c].actor
      /\ k.token = call[c].token /\ k.auf = call[c].auf /\ k.mcd = call[c].mcd
      BY <1>1 DEF Call
<1> HIDE DEF k
<1>5. PlaceAt(k, seen[c], k.pc) BY <1>4 DEF PlaceAt, Stays
<1>6. ASSUME k.pc \in Resolved, k.req.op \in FnOps PROVE ReadOf(call, k.req.fn, k.row)
      BY <1>4, <1>6 DEF IInv, RowInv, RowOf
<1>7. dash' \in {"none", "pool", "err"} BY DEF IInv, TypeOK
<1>8. Underway(k) BY <1>4 DEF Underway
<1> QED BY <1>2, <1>3, <1>4, <1>5, <1>6, <1>7, <1>8, MoveKeeps

\* A call is answered, for a reason, and shows versions and functions of its own.
LEMMA DoneKeeps ==
    ASSUME IInv, NEW c \in Calls, NEW k \in Call, call' = [call EXCEPT ![c] = k],
           UNCHANGED <<store, mcp, seen>>, dash' \in {"none", "pool", "err"},
           Underway(call[c]), k.pc = "done", k.ans \in Answers, k.req = call[c].req, OutOf(k),
           Reason(call[c].req, seen[c], k.ans),
           k.ans = "ok" /\ call[c].req.op \in Lists =>
              \A f \in k.shown : Viewed(call[c].req, seen[c], f),
           k.ans = "ok" /\ call[c].req.op \in {"get", "files"} =>
              \A v \in k.shown : Home(call, v, call[c].req.fn)
    PROVE  IInv'
<1>1. call'[c] = k /\ \A q \in Calls \ {c} : call'[q] = call[q] BY DEF IInv, TypeOK
<1>2. Asks(k.req) BY DEF IInv, CallInv, CallOf, PlaceAt
<1>3. CallOf(k, seen[c]) BY <1>2 DEF CallOf, Underway
<1>4. ASSUME NEW v, NEW f, Home(call, v, f) PROVE Home(call', v, f)
      BY <1>4, <1>1 DEF Home, Underway
<1>5. RowOf(call, c)' BY <1>1, <1>4 DEF RowOf, Resolved
<1>6. k.ans # None BY NoneAssumption
<1> QED BY <1>3, <1>5, <1>6, QuietKeeps

\* An answer that shows nothing needs its reason, whatever becomes of the dashboard's pool.
LEMMA AnswerKeepsDash ==
    ASSUME IInv, NEW c \in Calls, NEW a \in Answers, Answer(c, a),
           UNCHANGED <<store, mcp, seen>>, dash' \in {"none", "pool", "err"}, Underway(call[c]),
           Reason(call[c].req, seen[c], a)
    PROVE  IInv'
<1> DEFINE k == [call[c] EXCEPT !.pc = "done", !.ans = a]
<1>1. call \in [Calls -> Call] /\ call[c] \in Call BY DEF IInv, TypeOK
<1>2. k \in Call BY <1>1 DEF Call, Places
<1>3. call' = [call EXCEPT ![c] = k] BY <1>1 DEF Answer
<1>4. /\ k.pc = "done" /\ k.ans = a /\ k.req = call[c].req /\ k.shown = call[c].shown
      /\ k.out = call[c].out
      BY <1>1 DEF Call
<1> HIDE DEF k
<1>5. k.shown = {} BY <1>4 DEF IInv, CallInv, CallOf, Underway
<1>6. OutOf(k) BY <1>4 DEF IInv, OutInv, OutOf, Underway
<1> QED BY <1>2, <1>3, <1>4, <1>5, <1>6, DoneKeeps

\* The same, when the pool stays as it is.
LEMMA AnswerKeeps ==
    ASSUME IInv, NEW c \in Calls, NEW a \in Answers, Answer(c, a),
           UNCHANGED <<store, mcp, dash, seen>>, Underway(call[c]),
           Reason(call[c].req, seen[c], a)
    PROVE  IInv'
<1>1. dash' \in {"none", "pool", "err"} BY DEF IInv, TypeOK
<1> QED BY <1>1, AnswerKeepsDash

\* An answer that shows something needs leave for all that it shows.
LEMMA ShowsKeeps ==
    ASSUME IInv, NEW c \in Calls, NEW vs \in SUBSET (Vers \cup Calls \cup Fns), NEW out \in Output,
           Shows(c, vs, out), UNCHANGED <<store, mcp, dash, seen>>,
           call[c].pc \in (Permitted \ {"serve"}) \cup {"op"}, Allowed(call[c].req, seen[c], TRUE),
           \/ out = call[c].out
           \/ call[c].req.op = "files" /\ out \in UNION {Returned(FileSizes[v]) : v \in Vers},
           call[c].req.op \in Lists => \A f \in vs : Viewed(call[c].req, seen[c], f),
           call[c].req.op \in {"get", "files"} => \A v \in vs : Home(call, v, call[c].req.fn)
    PROVE  IInv'
<1> DEFINE k == [call[c] EXCEPT !.pc = "done", !.ans = "ok", !.shown = vs, !.out = out]
<1>1. call \in [Calls -> Call] /\ call[c] \in Call BY DEF IInv, TypeOK
<1>2. k \in Call BY <1>1 DEF Call, Places, Answers
<1>3. call' = [call EXCEPT ![c] = k] BY <1>1 DEF Shows
<1>4. k.pc = "done" /\ k.ans = "ok" /\ k.req = call[c].req /\ k.shown = vs /\ k.out = out
      BY <1>1 DEF Call
<1> HIDE DEF k
<1>5. Underway(call[c]) BY DEF Underway, Permitted
<1>6. OutOf(k) BY <1>4 DEF IInv, OutInv, OutOf, Permitted
<1>7. Opens(call[c].req)
      BY <1>5 DEF IInv, CallInv, CallOf, PlaceAt, Acting, Permitted, Known
<1>8. Reason(call[c].req, seen[c], "ok") BY <1>7 DEF Reason
<1>9. k.ans \in Answers BY <1>4 DEF Answers
<1>10. dash' \in {"none", "pool", "err"} BY DEF IInv, TypeOK
<1> QED BY <1>2, <1>3, <1>4, <1>5, <1>6, <1>8, <1>9, <1>10, DoneKeeps

-----------------------------------------------------------------------------
(***************************************************************************)
(* Who is calling.                                                         *)
(***************************************************************************)

\* What is known of a call under way.
LEMMA UnderwayHas ==
    ASSUME IInv, NEW c \in Calls, Underway(call[c])
    PROVE  /\ PlaceAt(call[c], seen[c], call[c].pc) /\ Asks(call[c].req)
           /\ Watched(call[c].req, seen[c])
           /\ call[c].req \in Request /\ call[c].req.user \in Users /\ call[c].req.fn \in Fns
           /\ call[c].req.target \in Users /\ call[c].req.ver \in Vers \cup {None}
           /\ call[c].ans = None
<1>1. PlaceAt(call[c], seen[c], call[c].pc) BY DEF IInv, CallInv, CallOf
<1>2. Asks(call[c].req) BY <1>1 DEF PlaceAt
<1>3. Watched(call[c].req, seen[c]) BY DEF IInv, WatchInv
<1>4. call[c].ans = None BY DEF IInv, TypeOK, Underway
<1> QED BY <1>1, <1>2, <1>3, <1>4 DEF Asks, Request

\* Whoever the row names while it is active is known.
LEMMA ActorKnown ==
    ASSUME IInv, NEW c \in Calls, Underway(call[c]), users[call[c].req.user].status = "active",
           Opens(call[c].req)
    PROVE  Known(call[c].req, seen[c], Actor(call[c].req.user))
<1>1. call[c].req.user \in Users /\ Watched(call[c].req, seen[c]) BY UnderwayHas
<1>2. users[call[c].req.user] \in UserRow BY <1>1 DEF IInv, TypeOK
<1>3. Actor(call[c].req.user) \in Who BY <1>1, <1>2 DEF Actor, Who, UserRow
<1>4. users[call[c].req.user] \in seen[c].rows BY <1>1 DEF Watched
<1> QED BY <1>3, <1>4 DEF Known, Actor

\* A call goes on for the actor that was found.
LEMMA ActorKeeps ==
    ASSUME IInv, NEW c \in Calls, NEW a \in Who, Known(call[c].req, seen[c], a),
           call' = [call EXCEPT ![c].pc = "op", ![c].actor = a],
           call[c].pc \in {"auth", "tool", "guest"}, UNCHANGED <<store, mcp, dash, seen>>
    PROVE  IInv'
<1> DEFINE k == [call[c] EXCEPT !.pc = "op", !.actor = a]
<1>1. call \in [Calls -> Call] /\ call[c] \in Call BY DEF IInv, TypeOK
<1>2. k \in Call BY <1>1 DEF Call, Places
<1>3. call' = [call EXCEPT ![c] = k] BY <1>1
<1>4. /\ k.pc = "op" /\ k.actor = a /\ k.req = call[c].req /\ k.ans = call[c].ans
      /\ k.out = call[c].out /\ k.shown = call[c].shown
      BY <1>1 DEF Call
<1> HIDE DEF k
<1>5. Underway(call[c]) /\ Underway(k) BY <1>4 DEF Underway
<1>6. Asks(call[c].req) BY <1>5, UnderwayHas
<1>7. PlaceAt(k, seen[c], k.pc) BY <1>4, <1>6 DEF PlaceAt, Permitted
<1>8. k.pc \notin Resolved BY <1>4 DEF Resolved
<1>9. dash' \in {"none", "pool", "err"} BY DEF IInv, TypeOK
<1> QED BY <1>2, <1>3, <1>4, <1>5, <1>7, <1>8, <1>9, MoveKeeps

\* Middleware lets active users in by cookie or token, with CSRF for changes by cookie.
LEMMA ServeRESTKeeps ==
    ASSUME IInv, NEW c \in Calls, ServeREST(c)
    PROVE  IInv'
<1> DEFINE r == call[c].req
<1>1. call[c].pc = "auth" /\ r.via = "rest" BY DEF ServeREST, At
<1>2. Underway(call[c]) BY <1>1 DEF Underway
<1>3. r \in Request /\ r.user \in Users /\ Watched(r, seen[c]) BY <1>2, UnderwayHas
<1>4. users[r.user] \in UserRow /\ users[r.user] \in seen[c].rows
      BY <1>3 DEF IInv, TypeOK, Watched
<1>5. UNCHANGED <<store, mcp, dash, seen>> BY DEF ServeREST
<1>6. CASE Answer(c, "unauthorized") /\ ~Authenticate(r)
  <2>1. Reason(r, seen[c], "unauthorized")
        BY <1>1, <1>3, <1>4, <1>6 DEF Reason, Authenticate, Opens, Request
  <2>2. "unauthorized" \in Answers BY DEF Answers
  <2> QED BY <1>2, <1>5, <1>6, <2>1, <2>2, AnswerKeeps
<1>7. CASE Answer(c, "pending") /\ users[r.user].status = "pending"
  <2>1. Reason(r, seen[c], "pending") BY <1>4, <1>7 DEF Reason
  <2>2. "pending" \in Answers BY DEF Answers
  <2> QED BY <1>2, <1>5, <1>7, <2>1, <2>2, AnswerKeeps
<1>8. CASE Answer(c, "csrf")
  <2>1. Reason(r, seen[c], "csrf") BY DEF Reason
  <2>2. "csrf" \in Answers BY DEF Answers
  <2> QED BY <1>2, <1>5, <1>8, <2>1, <2>2, AnswerKeeps
<1>9. CASE /\ Authenticate(r) /\ users[r.user].status = "active" /\ RequireCSRF(r)
           /\ call' = [call EXCEPT ![c].pc = "op", ![c].actor = Actor(r.user)]
  <2>1. Opens(r) BY <1>1, <1>9 DEF Opens, Authenticate, RequireCSRF
  <2>2. Known(r, seen[c], Actor(r.user)) BY <1>2, <1>9, <2>1, ActorKnown
  <2>3. Actor(r.user) \in Who BY <2>2 DEF Known
  <2> QED BY <1>1, <1>5, <1>9, <2>2, <2>3, ActorKeeps
<1>10. users[r.user].status \in {"active", "pending", "disabled"} BY <1>4 DEF UserRow, Statuses
<1> QED BY <1>6, <1>7, <1>8, <1>9, <1>10 DEF ServeREST, Authenticate

\* The SDK lets in who owns the session, by token.
LEMMA ServeMCPKeeps ==
    ASSUME IInv, NEW c \in Calls, ServeMCP(c)
    PROVE  IInv'
<1> DEFINE r == call[c].req
<1>1. call[c].pc = "auth" /\ r.via = "mcp" BY DEF ServeMCP, At
<1>2. Underway(call[c]) BY <1>1 DEF Underway
<1>3. r \in Request /\ r.user \in Users /\ Watched(r, seen[c]) /\ Asks(r) BY <1>2, UnderwayHas
<1>4. users[r.user] \in seen[c].rows BY <1>3 DEF Watched
<1>5. UNCHANGED <<store, mcp, dash, seen>> BY DEF ServeMCP
<1>6. CASE Answer(c, "unauthorized") /\ ~authenticateHeader(r)
  <2>1. Reason(r, seen[c], "unauthorized")
        BY <1>1, <1>3, <1>4, <1>6 DEF Reason, authenticateHeader, Opens, Request
  <2>2. "unauthorized" \in Answers BY DEF Answers
  <2> QED BY <1>2, <1>5, <1>6, <2>1, <2>2, AnswerKeeps
<1>7. CASE Answer(c, "closed")
  <2>1. Reason(r, seen[c], "closed") BY DEF Reason
  <2>2. "closed" \in Answers BY DEF Answers
  <2> QED BY <1>2, <1>5, <1>7, <2>1, <2>2, AnswerKeeps
<1>8. CASE Goto(c, "tool")
  <2>1. PlaceAt(call[c], seen[c], "tool") BY <1>3 DEF PlaceAt, Acting, Permitted
  <2>2. "tool" \in Places \ {"idle", "done", "over"} /\ "tool" \notin Resolved
        BY DEF Places, Resolved
  <2> QED BY <1>1, <1>2, <1>5, <1>8, <2>1, <2>2, GotoKeeps
<1> QED BY <1>6, <1>7, <1>8 DEF ServeMCP

\* The tool looks at the token again, and at the row as it is now.
LEMMA requireActorKeeps ==
    ASSUME IInv, NEW c \in Calls, requireActor(c)
    PROVE  IInv'
<1> DEFINE r == call[c].req
<1>1. call[c].pc = "tool" /\ r.via = "mcp" BY DEF requireActor, At
<1>2. Underway(call[c]) BY <1>1 DEF Underway
<1>3. r \in Request /\ r.user \in Users /\ Watched(r, seen[c]) BY <1>2, UnderwayHas
<1>4. users[r.user] \in seen[c].rows BY <1>3 DEF Watched
<1>5. UNCHANGED <<store, mcp, dash, seen>> BY DEF requireActor
<1>6. CASE Answer(c, "unknown")
  <2>1. Reason(r, seen[c], "unknown") BY DEF Reason
  <2>2. "unknown" \in Answers BY DEF Answers
  <2> QED BY <1>2, <1>5, <1>6, <2>1, <2>2, AnswerKeeps
<1>7. CASE Answer(c, "unauthorized") /\ ~authenticateHeader(r)
  <2>1. Reason(r, seen[c], "unauthorized")
        BY <1>1, <1>3, <1>4, <1>7 DEF Reason, authenticateHeader, Opens, Request
  <2>2. "unauthorized" \in Answers BY DEF Answers
  <2> QED BY <1>2, <1>5, <1>7, <2>1, <2>2, AnswerKeeps
<1>8. CASE /\ authenticateHeader(r)
           /\ call' = [call EXCEPT ![c].pc = "op", ![c].actor = Actor(r.user)]
  <2>1. users[r.user].status = "active" /\ Opens(r) BY <1>1, <1>8 DEF Opens, authenticateHeader
  <2>2. Known(r, seen[c], Actor(r.user)) BY <1>2, <2>1, ActorKnown
  <2>3. Actor(r.user) \in Who BY <2>2 DEF Known
  <2> QED BY <1>1, <1>5, <1>8, <2>2, <2>3, ActorKeeps
<1> QED BY <1>6, <1>7, <1>8 DEF requireActor

\* The dashboard signs a token for who its cookie names, if active.
LEMMA ServeDashboardKeeps ==
    ASSUME IInv, NEW c \in Calls, ServeDashboard(c)
    PROVE  IInv'
<1> DEFINE r == call[c].req
<1>1. call[c].pc = "auth" /\ r.via = "dash" BY DEF ServeDashboard, At
<1>2. Underway(call[c]) BY <1>1 DEF Underway
<1>3. r \in Request /\ r.user \in Users /\ Watched(r, seen[c]) /\ Asks(r) BY <1>2, UnderwayHas
<1>4. users[r.user] \in UserRow /\ users[r.user] \in seen[c].rows
      BY <1>3 DEF IInv, TypeOK, Watched
<1>5. UNCHANGED <<store, mcp, seen>> BY DEF ServeDashboard
<1>6. dash' \in {"none", "pool", "err"} BY DEF ServeDashboard, ensurePool, IInv, TypeOK
<1>7. CASE Answer(c, "unauthorized") /\ (r.cred # "cookie" \/ users[r.user].status = "disabled")
  <2>1. Reason(r, seen[c], "unauthorized") BY <1>1, <1>3, <1>4, <1>7 DEF Reason, Opens, Request
  <2>2. "unauthorized" \in Answers BY DEF Answers
  <2> QED BY <1>2, <1>5, <1>6, <1>7, <2>1, <2>2, AnswerKeepsDash
<1>8. CASE Answer(c, "pending") /\ users[r.user].status = "pending"
  <2>1. Reason(r, seen[c], "pending") BY <1>4, <1>8 DEF Reason
  <2>2. "pending" \in Answers BY DEF Answers
  <2> QED BY <1>2, <1>5, <1>6, <1>8, <2>1, <2>2, AnswerKeepsDash
<1>9. CASE Answer(c, "unavailable")
  <2>1. Reason(r, seen[c], "unavailable") BY DEF Reason
  <2>2. "unavailable" \in Answers BY DEF Answers
  <2> QED BY <1>2, <1>5, <1>6, <1>9, <2>1, <2>2, AnswerKeepsDash
<1>10. CASE /\ r.cred = "cookie" /\ users[r.user].status = "active"
            /\ call' = [call EXCEPT ![c].pc = "guest", ![c].token = Actor(r.user)]
  <2>1. Opens(r) BY <1>1, <1>10 DEF Opens
  <2>2. Known(r, seen[c], Actor(r.user)) BY <1>2, <1>10, <2>1, ActorKnown
  <2> DEFINE a == Actor(r.user)
             k == [call[c] EXCEPT !.pc = "guest", !.token = a]
  <2>3. a \in Who /\ call \in [Calls -> Call] /\ call[c] \in Call
        BY <2>2 DEF Known, IInv, TypeOK
  <2>4. call' = [call EXCEPT ![c].pc = "guest", ![c].token = a] BY <1>10
  <2> HIDE DEF a
  <2>5. k \in Call BY <2>3 DEF Call, Places
  <2>6. call' = [call EXCEPT ![c] = k] BY <2>3, <2>4
  <2>7. /\ k.pc = "guest" /\ k.token = a /\ k.req = call[c].req /\ k.ans = call[c].ans
        /\ k.out = call[c].out /\ k.shown = call[c].shown
        BY <2>3 DEF Call
  <2> HIDE DEF k
  <2>8. Known(r, seen[c], a) BY <2>2 DEF a
  <2>9. PlaceAt(k, seen[c], k.pc) BY <2>7, <2>8, <1>3 DEF PlaceAt, Acting, Permitted
  <2>10. Underway(k) /\ k.pc \notin Resolved BY <2>7 DEF Resolved, Underway
  <2> QED BY <1>1, <1>2, <1>5, <1>6, <2>5, <2>6, <2>7, <2>9, <2>10, MoveKeeps
<1>11. users[r.user].status \in {"active", "pending", "disabled"} BY <1>4 DEF UserRow, Statuses
<1> QED BY <1>7, <1>8, <1>9, <1>10, <1>11 DEF ServeDashboard

\* Each call from the guest goes by the token it came with.
LEMMA internalAPIKeeps ==
    ASSUME IInv, NEW c \in Calls, internalAPI(c)
    PROVE  IInv'
<1>1. call[c].pc = "guest" BY DEF internalAPI, At
<1>2. Underway(call[c]) BY <1>1 DEF Underway
<1>3. Known(call[c].req, seen[c], call[c].token) BY <1>1, <1>2, UnderwayHas DEF PlaceAt
<1>4. call[c].token \in Who BY <1>3 DEF Known
<1> QED BY <1>1, <1>3, <1>4, ActorKeeps DEF internalAPI

\* A token that has run out opens nothing.
LEMMA ExpireKeeps ==
    ASSUME IInv, NEW c \in Calls, Expire(c)
    PROVE  IInv'
<1>1. Underway(call[c]) BY DEF Expire, At, Underway
<1>2. Reason(call[c].req, seen[c], "expired") BY DEF Reason
<1>3. "expired" \in Answers BY DEF Answers
<1> QED BY <1>1, <1>2, <1>3, AnswerKeeps DEF Expire

-----------------------------------------------------------------------------
(***************************************************************************)
(* What a call may do.                                                     *)
(***************************************************************************)

\* CanView, for somebody known, tells whether the caller could see a function.
LEMMA CanViewTells ==
    ASSUME IInv, NEW c \in Calls, Underway(call[c]), call[c].pc \in Acting, NEW f \in Fns
    PROVE  /\ CanView(call[c].actor, OwnerOf[f]) => Viewed(call[c].req, seen[c], f)
           /\ ~CanView(call[c].actor, OwnerOf[f]) =>
                 \E row \in seen[c].rows, w \in seen[c].roles :
                     /\ row.role # "admin" /\ OwnerOf[f] # call[c].req.user
                     /\ OwnerOf[f] = "workspace" => w = None
<1> DEFINE r == call[c].req
           a == call[c].actor
           g == [r EXCEPT !.op = "get", !.fn = f]
<1>1. Known(r, seen[c], a) /\ Watched(r, seen[c]) /\ r \in Request /\ r.user \in Users
      BY UnderwayHas DEF PlaceAt
<1>2. PICK row \in seen[c].rows : row.status = "active" /\ row.role = a.role BY <1>1 DEF Known
<1>3. members[r.user] \in seen[c].roles /\ a.id = r.user BY <1>1 DEF Watched, Known
<1>4. r.user # "workspace" BY <1>1, RowsAssumption
<1>5. g.op = "get" /\ g.fn = f /\ g.user = r.user BY <1>1 DEF Request
<1> HIDE DEF g
<1>6. CanView(a, OwnerOf[f]) => May(g, row, members[r.user], FALSE, FALSE)
      BY <1>2, <1>3, <1>4, <1>5 DEF CanView, IsOrgAdmin, May, FnOps, Reads
<1>7. CanView(a, OwnerOf[f]) => Viewed(r, seen[c], f) BY <1>3, <1>6 DEF Viewed, g
<1>8. ~CanView(a, OwnerOf[f]) =>
         /\ row.role # "admin" /\ OwnerOf[f] # r.user
         /\ OwnerOf[f] = "workspace" => members[r.user] = None
      BY <1>2, <1>3, <1>4 DEF CanView, IsOrgAdmin
<1> QED BY <1>3, <1>7, <1>8

\* Settings are there, whatever they are.
LEMMA SomeSettings ==
    ASSUME IInv, NEW c \in Calls, Underway(call[c]), NEW ok \in BOOLEAN,
           \E row \in seen[c].rows, w \in seen[c].roles : \A m, a \in BOOLEAN :
               May(call[c].req, row, w, m, a) = ok
    PROVE  Allowed(call[c].req, seen[c], ok)
<1>1. Watched(call[c].req, seen[c]) BY UnderwayHas
<1>2. conf.memberCanDeploy \in seen[c].mcd /\ conf.allowUserFunctions \in seen[c].auf
      BY <1>1 DEF Watched
<1>3. conf.memberCanDeploy \in BOOLEAN /\ conf.allowUserFunctions \in BOOLEAN
      BY DEF IInv, TypeOK, Conf
<1> QED BY <1>2, <1>3 DEF Allowed

\* A function is read, or is not there.
LEMMA ResolvedToKeeps ==
    ASSUME IInv, NEW c \in Calls, NEW p \in {"view", "settings"}, ResolvedTo(c, p),
           call[c].pc = "op", UNCHANGED <<store, mcp, dash, seen>>,
           IF p = "view" THEN call[c].req.op \in FnOps \ {"setenv"} ELSE call[c].req.op = "setenv"
    PROVE  IInv'
<1> DEFINE r == call[c].req
           f == fns[r.fn]
<1>1. Underway(call[c]) BY DEF Underway
<1>2. Asks(r) /\ Watched(r, seen[c]) /\ r.fn \in Fns /\ Known(r, seen[c], call[c].actor)
      BY <1>1, UnderwayHas DEF PlaceAt, Acting
<1>3. CASE f = None
  <2>1. Reason(r, seen[c], "notFound") BY <1>2, <1>3 DEF Reason, Watched
  <2>2. "notFound" \in Answers BY DEF Answers
  <2> QED BY <1>1, <1>3, <2>1, <2>2, AnswerKeeps DEF ResolvedTo
<1>4. CASE f # None
  <2>1. f \in FnRow /\ f.active \in f.rows BY <1>2, <1>4 DEF IInv, TypeOK
  <2>2. ReadOf(call, r.fn, f) BY <1>2, <1>4, <2>1 DEF ReadOf, IInv, HomeInv
  <2>3. call' = [call EXCEPT ![c].pc = p, ![c].row = f] BY <1>4 DEF ResolvedTo
  <2> HIDE DEF f
  <2> DEFINE k == [call[c] EXCEPT !.pc = p, !.row = f]
  <2>4. call \in [Calls -> Call] /\ call[c] \in Call BY DEF IInv, TypeOK
  <2>5. k \in Call BY <2>1, <2>4 DEF Call, Places
  <2>6. call' = [call EXCEPT ![c] = k] BY <2>3, <2>4
  <2>7. /\ k.pc = p /\ k.row = f /\ k.req = call[c].req /\ k.ans = call[c].ans
        /\ k.out = call[c].out /\ k.shown = call[c].shown /\ k.actor = call[c].actor
        BY <2>4 DEF Call
  <2> HIDE DEF k
  <2>8. PlaceAt(k, seen[c], k.pc) BY <2>7, <1>2 DEF PlaceAt, Permitted, FnOps, Reads
  <2>9. Underway(k) BY <2>7 DEF Underway
  <2>10. dash' \in {"none", "pool", "err"} BY DEF IInv, TypeOK
  <2> QED BY <1>1, <2>2, <2>5, <2>6, <2>7, <2>8, <2>9, <2>10, MoveKeeps
<1> QED BY <1>3, <1>4

\* Resolve and ResolveForEnv.
LEMMA ResolveKeeps ==
    ASSUME IInv, NEW c \in Calls, Resolve(c) \/ ResolveForEnv(c)
    PROVE  IInv'
BY ResolvedToKeeps DEF Resolve, ResolveForEnv

\* Who may not see a function is told that there is none.
LEMMA ResolveVisibleKeeps ==
    ASSUME IInv, NEW c \in Calls, ResolveVisible(c)
    PROVE  IInv'
<1> DEFINE r == call[c].req
<1>1. call[c].pc = "view" /\ UNCHANGED <<store, mcp, dash, seen>> BY DEF ResolveVisible
<1>2. Underway(call[c]) /\ call[c].pc \in Acting /\ call[c].pc \in Resolved
      BY <1>1 DEF Underway, Acting, Resolved
<1>3. Asks(r) /\ r.fn \in Fns /\ r \in Request /\ PlaceAt(call[c], seen[c], "view")
      BY <1>1, <1>2, UnderwayHas
<1>4. r.op \in FnOps \ {"setenv"} /\ Known(r, seen[c], call[c].actor) BY <1>3 DEF PlaceAt, Acting
<1>5. CASE CanView(call[c].actor, OwnerOf[r.fn])
  <2>1. Viewed(r, seen[c], r.fn) BY <1>2, <1>3, <1>5, CanViewTells
  <2>2. CASE r.op \in Reads
    <3>1. Goto(c, "show") BY <1>5, <2>2 DEF ResolveVisible, Owner
    <3>2. PICK row \in seen[c].rows, w \in seen[c].roles :
             May([r EXCEPT !.op = "get", !.fn = r.fn], row, w, FALSE, FALSE)
          BY <2>1 DEF Viewed
    <3>3. \A m, a \in BOOLEAN : May(r, row, w, m, a) = TRUE
          BY <3>2, <2>2, <1>3 DEF May, FnOps, Reads, Request
    <3>4. Allowed(r, seen[c], TRUE) BY <3>3, <1>2, SomeSettings
    <3>5. PlaceAt(call[c], seen[c], "show") BY <1>3, <1>4, <2>2, <3>4 DEF PlaceAt
    <3>6. "show" \in Places \ {"idle", "done", "over"} BY DEF Places
    <3> QED BY <1>1, <1>2, <3>1, <3>5, <3>6, GotoKeeps
  <2>3. CASE r.op \notin Reads
    <3>1. Goto(c, "settings") BY <1>5, <2>3 DEF ResolveVisible, Owner
    <3>2. r.op # "deploy" BY <1>4 DEF FnOps, Reads
    <3>3. PlaceAt(call[c], seen[c], "settings")
          BY <1>3, <1>4, <2>1, <2>3, <3>2 DEF PlaceAt, Permitted
    <3>4. "settings" \in Places \ {"idle", "done", "over"} BY DEF Places
    <3> QED BY <1>1, <1>2, <3>1, <3>3, <3>4, GotoKeeps
  <2> QED BY <2>2, <2>3
<1>6. CASE ~CanView(call[c].actor, OwnerOf[r.fn])
  <2>1. PICK row \in seen[c].rows, w \in seen[c].roles :
           /\ row.role # "admin" /\ OwnerOf[r.fn] # r.user
           /\ OwnerOf[r.fn] = "workspace" => w = None
        BY <1>2, <1>3, <1>6, CanViewTells
  <2>2. \A m, a \in BOOLEAN : May(r, row, w, m, a) = FALSE
        BY <2>1, <1>4, NoneAssumption DEF May, FnOps, Reads, Roles
  <2>3. Allowed(r, seen[c], FALSE) BY <2>2, <1>2, SomeSettings
  <2>4. Reason(r, seen[c], "notFound") BY <2>3 DEF Reason
  <2>5. "notFound" \in Answers BY DEF Answers
  <2> QED BY <1>1, <1>2, <1>6, <2>4, <2>5, AnswerKeeps DEF ResolveVisible, Owner
<1> QED BY <1>5, <1>6

\* Deploy reads the settings; a dry run is for everybody.
LEMMA DeployKeeps ==
    ASSUME IInv, NEW c \in Calls, Deploy(c)
    PROVE  IInv'
<1> DEFINE r == call[c].req
<1>1. call[c].pc = "op" /\ r.op \in Deploys /\ UNCHANGED <<store, mcp, dash, seen>> BY DEF Deploy
<1>2. Underway(call[c]) /\ call[c].pc \in Acting BY <1>1 DEF Underway, Acting
<1>3. Asks(r) /\ Watched(r, seen[c]) /\ Known(r, seen[c], call[c].actor)
      BY <1>2, UnderwayHas DEF PlaceAt
<1>4. CASE Answer(c, "invalid")
  <2>1. Reason(r, seen[c], "invalid") BY DEF Reason
  <2>2. "invalid" \in Answers BY DEF Answers
  <2> QED BY <1>1, <1>2, <1>4, <2>1, <2>2, AnswerKeeps
<1>5. CASE r.op = "dryrun" /\ Answer(c, "ok")
  <2>1. PICK row \in seen[c].rows : row.status = "active" BY <1>3 DEF Known
  <2>2. members[r.user] \in seen[c].roles BY <1>3 DEF Watched
  <2>3. \A m, a \in BOOLEAN : May(r, row, members[r.user], m, a) = TRUE BY <1>5, <2>1 DEF May
  <2>4. Allowed(r, seen[c], TRUE) BY <1>2, <2>2, <2>3, SomeSettings
  <2>5. Reason(r, seen[c], "ok") BY <2>4, <1>3 DEF Reason, Known
  <2>6. "ok" \in Answers BY DEF Answers
  <2> QED BY <1>1, <1>2, <1>5, <2>5, <2>6, AnswerKeeps
<1>6. CASE /\ r.op = "deploy"
           /\ call' = [call EXCEPT ![c].pc = "settings", ![c].auf = conf.allowUserFunctions]
  <2> DEFINE v == conf.allowUserFunctions
             k == [call[c] EXCEPT !.pc = "settings", !.auf = v]
  <2>1. v \in BOOLEAN /\ call \in [Calls -> Call] /\ call[c] \in Call
        BY DEF IInv, TypeOK, Conf
  <2>2. v \in seen[c].auf /\ call' = [call EXCEPT ![c].pc = "settings", ![c].auf = v]
        BY <1>3, <1>6 DEF Watched
  <2> HIDE DEF v
  <2>3. k \in Call BY <2>1 DEF Call, Places
  <2>4. call' = [call EXCEPT ![c] = k] BY <2>1, <2>2
  <2>5. /\ k.pc = "settings" /\ k.auf = v /\ k.req = call[c].req /\ k.ans = call[c].ans
        /\ k.out = call[c].out /\ k.shown = call[c].shown /\ k.actor = call[c].actor
        BY <2>1 DEF Call
  <2> HIDE DEF k
  <2>6. k.req.op = "deploy" /\ k.req.op \notin FnOps BY <1>6, <2>5 DEF FnOps, Reads
  <2>7. PlaceAt(k, seen[c], k.pc) BY <1>3, <2>2, <2>5, <2>6 DEF PlaceAt, Permitted
  <2>8. Underway(k) BY <2>5 DEF Underway
  <2>9. dash' \in {"none", "pool", "err"} BY <1>1 DEF IInv, TypeOK
  <2> QED BY <1>1, <1>2, <2>3, <2>4, <2>5, <2>6, <2>7, <2>8, <2>9, MoveKeeps
<1> QED BY <1>1, <1>4, <1>5, <1>6 DEF Deploy, Deploys

\* The workspace's settings are read before the caller's role.
LEMMA LoadWorkspaceKeeps ==
    ASSUME IInv, NEW c \in Calls, LoadWorkspace(c)
    PROVE  IInv'
<1> DEFINE r == call[c].req
           v == conf.memberCanDeploy
           k == [call[c] EXCEPT !.pc = "manage", !.mcd = v]
<1>1. call[c].pc = "settings" /\ UNCHANGED <<store, mcp, dash, seen>> BY DEF LoadWorkspace
<1>2. Underway(call[c]) /\ call[c].pc \in Resolved BY <1>1 DEF Underway, Resolved
<1>3. PlaceAt(call[c], seen[c], "settings") /\ Watched(r, seen[c]) BY <1>1, <1>2, UnderwayHas
<1>4. v \in BOOLEAN /\ call \in [Calls -> Call] /\ call[c] \in Call
      BY DEF IInv, TypeOK, Conf
<1>5. v \in seen[c].mcd /\ call' = [call EXCEPT ![c].pc = "manage", ![c].mcd = v]
      BY <1>3 DEF Watched, LoadWorkspace
<1> HIDE DEF v
<1>6. k \in Call BY <1>4 DEF Call, Places
<1>7. call' = [call EXCEPT ![c] = k] BY <1>4, <1>5
<1>8. /\ k.pc = "manage" /\ k.mcd = v /\ k.auf = call[c].auf /\ k.req = call[c].req
      /\ k.ans = call[c].ans /\ k.out = call[c].out /\ k.shown = call[c].shown
      /\ k.actor = call[c].actor /\ k.row = call[c].row
      BY <1>4 DEF Call
<1> HIDE DEF k
<1>9. PlaceAt(k, seen[c], k.pc) BY <1>3, <1>5, <1>8 DEF PlaceAt, Permitted, Acting
<1>10. k.req.op \in FnOps => ReadOf(call, k.req.fn, k.row)
       BY <1>2, <1>8 DEF IInv, RowInv, RowOf
<1>11. Underway(k) BY <1>8 DEF Underway
<1>12. dash' \in {"none", "pool", "err"} BY <1>1 DEF IInv, TypeOK
<1> QED BY <1>1, <1>2, <1>6, <1>7, <1>8, <1>9, <1>10, <1>11, <1>12, MoveKeeps

\* What authorizeDeploy and CanManage say is what the table says, of a row, a role and
\* settings that were so during the call.
LEMMA ManageTells ==
    ASSUME IInv, NEW c \in Calls, call[c].pc = "manage"
    PROVE  Allowed(call[c].req, seen[c],
                   IF call[c].req.op = "deploy" THEN authorizeDeploy(c) ELSE CanManage(c))
<1> DEFINE r == call[c].req
           a == call[c].actor
           w == members[r.user]
           ok == IF r.op = "deploy" THEN authorizeDeploy(c) ELSE CanManage(c)
<1>1. Underway(call[c]) BY DEF Underway
<1>2. /\ PlaceAt(call[c], seen[c], "manage") /\ Watched(r, seen[c]) /\ r \in Request
      /\ r.user \in Users /\ r.fn \in Fns
      BY <1>1, UnderwayHas
<1>3. Known(r, seen[c], a) BY <1>2 DEF PlaceAt, Acting
<1>4. PICK row \in seen[c].rows : row.status = "active" /\ row.role = a.role BY <1>3 DEF Known
<1>5. a.id = r.user BY <1>3 DEF Known
<1>6. w \in seen[c].roles /\ conf.allowUserFunctions \in seen[c].auf /\ call[c].mcd \in seen[c].mcd
      BY <1>2 DEF Watched, PlaceAt
<1>7. OwnerOf[r.fn] # r.user \/ OwnerOf[r.fn] # "workspace" BY <1>2, RowsAssumption
<1>8. r.op \in (FnOps \ Reads) \cup {"deploy"} BY <1>2 DEF PlaceAt
<1>9. ok \in BOOLEAN
      BY DEF authorizeDeploy, CanManage, CanManageFunction, CanDeployToWorkspace, CanDeployPersonal
<1>10. CASE r.op = "deploy"
  <2>1. call[c].auf \in seen[c].auf BY <1>2, <1>10 DEF PlaceAt
  <2>2. May(r, row, w, call[c].mcd, call[c].auf) = authorizeDeploy(c)
        BY <1>4, <1>5, <1>7, <1>10 DEF May, authorizeDeploy, CanDeployToWorkspace,
           CanDeployPersonal, IsOrgAdmin, Owner, FnOps, Reads
  <2> QED BY <1>4, <1>6, <1>10, <2>1, <2>2 DEF Allowed
<1>11. CASE r.op # "deploy"
  <2>1. May(r, row, w, call[c].mcd, conf.allowUserFunctions) = CanManage(c)
        BY <1>4, <1>5, <1>7, <1>8, <1>11 DEF May, CanManage, CanManageFunction,
           CanDeployToWorkspace, IsOrgAdmin, Owner, FnOps, Reads
  <2> QED BY <1>4, <1>6, <1>11, <2>1 DEF Allowed
<1> QED BY <1>10, <1>11

\* Who may manage goes on, who may not is told so, having seen the function.
LEMMA ManageKeeps ==
    ASSUME IInv, NEW c \in Calls, Manage(c)
    PROVE  IInv'
<1> DEFINE r == call[c].req
           ok == IF r.op = "deploy" THEN authorizeDeploy(c) ELSE CanManage(c)
<1>1. call[c].pc = "manage" /\ UNCHANGED <<store, mcp, dash, seen>> BY DEF Manage
<1>2. Underway(call[c]) /\ call[c].pc \in Resolved BY <1>1 DEF Underway, Resolved
<1>3. PlaceAt(call[c], seen[c], "manage") BY <1>1, <1>2, UnderwayHas
<1>4. r.op \in (FnOps \ Reads) \cup {"deploy"} BY <1>3 DEF PlaceAt
<1>5. Allowed(r, seen[c], ok) BY <1>1, ManageTells
<1>6. CASE ok
  <2>1. ok = TRUE
        BY <1>6 DEF authorizeDeploy, CanManage, CanManageFunction, CanDeployToWorkspace,
           CanDeployPersonal
  <2>2. Allowed(r, seen[c], TRUE) BY <1>5, <2>1
  <2>3. CASE r.op = "files"
    <3>1. Goto(c, "show") BY <1>6, <2>3 DEF Manage
    <3>2. PlaceAt(call[c], seen[c], "show") BY <1>3, <2>2, <2>3 DEF PlaceAt, Acting
    <3>3. "show" \in Places \ {"idle", "done", "over"} BY DEF Places
    <3> QED BY <1>1, <1>2, <3>1, <3>2, <3>3, GotoKeeps
  <2>4. CASE r.op # "files"
    <3>1. Goto(c, "act") BY <1>6, <2>4 DEF Manage
    <3>2. r.op \in Changing BY <1>4, <2>4 DEF Changing, FnOps, Reads
    <3>3. PlaceAt(call[c], seen[c], "act") BY <1>3, <2>2, <3>2 DEF PlaceAt, Acting
    <3>4. "act" \in Places \ {"idle", "done", "over"} BY DEF Places
    <3> QED BY <1>1, <1>2, <3>1, <3>3, <3>4, GotoKeeps
  <2> QED BY <2>3, <2>4
<1>7. CASE ~ok
  <2>1. ok = FALSE
        BY <1>7 DEF authorizeDeploy, CanManage, CanManageFunction, CanDeployToWorkspace,
           CanDeployPersonal
  <2>2. Allowed(r, seen[c], FALSE) BY <1>5, <2>1
  <2>3. Reason(r, seen[c], "forbidden") BY <1>3, <2>2 DEF Reason, PlaceAt
  <2>4. "forbidden" \in Answers BY DEF Answers
  <2>5. Answer(c, "forbidden") BY <1>7 DEF Manage
  <2> QED BY <1>1, <1>2, <2>3, <2>4, <2>5, AnswerKeeps
<1> QED BY <1>6, <1>7

-----------------------------------------------------------------------------
(***************************************************************************)
(* What a call shows and does.                                             *)
(***************************************************************************)

\* A call that has read its function knows one of its versions, which is stored as
\* long as the function is.
LEMMA ReadHas ==
    ASSUME IInv, NEW c \in Calls, call[c].pc \in Resolved, call[c].req.op \in FnOps
    PROVE  /\ ReadOf(call, call[c].req.fn, call[c].row)
           /\ Home(call, call[c].row.active, call[c].req.fn)
           /\ call[c].row.active \in Vers \cup Calls
           /\ fns[call[c].req.fn] # None => call[c].row.active \in fns[call[c].req.fn].rows
<1>1. ReadOf(call, call[c].req.fn, call[c].row) BY DEF IInv, RowInv, RowOf
<1> QED BY <1>1 DEF ReadOf, FnRow

\* A function, its logs or its versions are shown.
LEMMA ShowKeeps ==
    ASSUME IInv, NEW c \in Calls, ShowFunction(c) \/ ShowLogs(c)
    PROVE  IInv'
<1> DEFINE r == call[c].req
<1>1. /\ call[c].pc = "show" /\ r.op \in Reads /\ UNCHANGED <<store, mcp, dash, seen>>
      BY DEF ShowFunction, ShowLogs, Reads
<1>2. /\ Underway(call[c]) /\ call[c].pc \in Resolved /\ call[c].pc \in Permitted \ {"serve"}
      /\ r.op \in FnOps /\ r.op \notin Lists \cup {"files"}
      BY <1>1 DEF Underway, Resolved, Permitted, Reads, FnOps, Lists
<1>3. /\ Allowed(r, seen[c], TRUE) /\ r.fn \in Fns /\ Watched(r, seen[c])
      BY <1>2, UnderwayHas DEF PlaceAt
<1>4. call[c].out \in Output BY DEF IInv, TypeOK, Call
<1>5. CASE ShowLogs(c)
  <2>1. Shows(c, {}, call[c].out) BY <1>5 DEF ShowLogs
  <2>2. {} \in SUBSET (Vers \cup Calls \cup Fns) OBVIOUS
  <2> QED BY <1>1, <1>2, <1>3, <1>4, <2>1, <2>2, ShowsKeeps
<1>6. CASE ShowFunction(c)
  <2> DEFINE there == {call[c].row.active} \cap Stored
  <2>1. \/ Answer(c, "notFound") /\ there = {}
        \/ Shows(c, there, call[c].out)
        BY <1>6 DEF ShowFunction
  <2>2. CASE Shows(c, there, call[c].out)
    <3>1. there \in SUBSET (Vers \cup Calls \cup Fns) BY <1>1, <1>2, ReadHas
    <3>2. \A v \in there : Home(call, v, r.fn) BY <1>1, <1>2, ReadHas
    <3> HIDE DEF there
    <3> QED BY <1>1, <1>2, <1>3, <1>4, <2>2, <3>1, <3>2, ShowsKeeps
  <2>3. CASE Answer(c, "notFound") /\ there = {}
    <3>1. fns[r.fn] = None BY <1>2, <1>3, <2>3, ReadHas DEF Stored
    <3>2. Reason(r, seen[c], "notFound") BY <1>3, <3>1 DEF Reason, Watched
    <3>3. "notFound" \in Answers BY DEF Answers
    <3> QED BY <1>1, <1>2, <2>3, <3>2, <3>3, AnswerKeeps
  <2> QED BY <2>1, <2>2, <2>3
<1> QED BY <1>5, <1>6

\* The files of a version are listed only under the function it is of.
LEMMA ShowFilesKeeps ==
    ASSUME IInv, NEW c \in Calls, ShowFiles(c)
    PROVE  IInv'
<1> DEFINE r == call[c].req
           v == resolveVersion(c)
<1>1. /\ call[c].pc = "show" /\ r.op = "files" /\ UNCHANGED <<store, mcp, dash, seen>>
      BY DEF ShowFiles
<1>2. /\ Underway(call[c]) /\ call[c].pc \in Resolved /\ call[c].pc \in Permitted \ {"serve"}
      /\ r.op \in FnOps /\ r.op \notin Lists
      BY <1>1 DEF Underway, Resolved, Permitted, FnOps, Lists
<1>3. /\ Allowed(r, seen[c], TRUE) /\ r.fn \in Fns /\ Watched(r, seen[c])
      /\ r.ver \in Vers \cup {None}
      BY <1>2, UnderwayHas DEF PlaceAt
<1>4. CASE Answer(c, "notFound") /\ v = None
  <2>1. fns[r.fn] = None \/ (r.ver # None /\ r.ver \notin fns[r.fn].rows)
    <3>1. call[c].row.active # None BY <1>2, ReadHas, NoneAssumption
    <3> QED BY <1>2, <1>4, <3>1, ReadHas DEF resolveVersion
  <2>2. Reason(r, seen[c], "notFound") BY <1>3, <2>1 DEF Reason, Watched
  <2>3. "notFound" \in Answers BY DEF Answers
  <2> QED BY <1>1, <1>2, <1>4, <2>2, <2>3, AnswerKeeps
<1>5. CASE Answer(c, "failed")
  <2>1. Reason(r, seen[c], "failed") BY DEF Reason
  <2>2. "failed" \in Answers BY DEF Answers
  <2> QED BY <1>1, <1>2, <1>5, <2>1, <2>2, AnswerKeeps
<1>6. ASSUME v # None, NEW out \in Returned(Sizes(v)), Shows(c, {v}, out) PROVE IInv'
  <2>1. fns[r.fn] # None /\ v \in fns[r.fn].rows BY <1>6 DEF resolveVersion
  <2>2. Home(call, v, r.fn) BY <1>3, <2>1 DEF IInv, HomeInv
  <2>3. PICK u \in Vers : Sizes(v) = FileSizes[u]
    <3>1. CASE v \in Vers BY <3>1 DEF Sizes
    <3>2. CASE v \notin Vers
      <4>1. Asks(call[v].req) /\ call[v].req.op = "deploy" BY <2>2, <3>2 DEF Home
      <4>2. call[v].req.ver \in Vers BY <4>1 DEF Asks, Request
      <4> QED BY <3>2, <4>2 DEF Sizes
    <3> QED BY <3>1, <3>2
  <2>4. out \in UNION {Returned(FileSizes[x]) : x \in Vers} BY <1>6, <2>3
  <2>5. out \in Output BY <2>4 DEF Output
  <2>6. {v} \in SUBSET (Vers \cup Calls \cup Fns) BY <2>2 DEF Home
  <2> HIDE DEF v
  <2>7. \A x \in {v} : Home(call, x, r.fn) BY <2>2
  <2> QED BY <1>1, <1>2, <1>3, <1>6, <2>4, <2>5, <2>6, <2>7, ShowsKeeps
<1> QED BY <1>4, <1>5, <1>6 DEF ShowFiles

\* What is done is answered.
LEMMA AuditKeeps ==
    ASSUME IInv, NEW c \in Calls, Audit(c)
    PROVE  IInv'
<1>1. Underway(call[c]) /\ call[c].pc \in Permitted /\ call[c].pc \in Acting
      BY DEF Audit, Underway, Permitted, Acting
<1>2. Allowed(call[c].req, seen[c], TRUE) /\ Opens(call[c].req)
      BY <1>1, UnderwayHas DEF PlaceAt, Known
<1>3. Reason(call[c].req, seen[c], "ok") BY <1>2 DEF Reason
<1>4. "ok" \in Answers BY DEF Answers
<1> QED BY <1>1, <1>3, <1>4, AnswerKeeps DEF Audit

\* The functions of an owner are for who may see them.
LEMMA ListOfOwnerKeeps ==
    ASSUME IInv, NEW c \in Calls, ListOfOwner(c)
    PROVE  IInv'
<1> DEFINE r == call[c].req
<1>1. /\ call[c].pc = "op" /\ r.op = "listOwner" /\ UNCHANGED <<store, mcp, dash, seen>>
      BY DEF ListOfOwner
<1>2. Underway(call[c]) /\ call[c].pc \in Acting BY <1>1 DEF Underway, Acting
<1>3. Asks(r) /\ r.fn \in Fns /\ r \in Request /\ Known(r, seen[c], call[c].actor)
      BY <1>2, UnderwayHas DEF PlaceAt
<1>4. CASE CanView(call[c].actor, OwnerOf[r.fn])
  <2>1. Viewed(r, seen[c], r.fn) BY <1>2, <1>3, <1>4, CanViewTells
  <2>2. Goto(c, "listing") BY <1>4 DEF ListOfOwner, Owner
  <2>3. PICK row \in seen[c].rows, w \in seen[c].roles :
           May([r EXCEPT !.op = "get", !.fn = r.fn], row, w, FALSE, FALSE)
        BY <2>1 DEF Viewed
  <2>4. \A m, a \in BOOLEAN : May(r, row, w, m, a) = TRUE
        BY <2>3, <1>1, <1>3 DEF May, FnOps, Reads, Request
  <2>5. Allowed(r, seen[c], TRUE) BY <2>4, <1>2, SomeSettings
  <2>6. PlaceAt(call[c], seen[c], "listing") BY <1>1, <1>3, <2>1, <2>5 DEF PlaceAt
  <2>7. "listing" \in Places \ {"idle", "done", "over"} /\ "listing" \notin Resolved
        BY DEF Places, Resolved
  <2> QED BY <1>1, <1>2, <2>2, <2>6, <2>7, GotoKeeps
<1>5. CASE ~CanView(call[c].actor, OwnerOf[r.fn])
  <2>1. PICK row \in seen[c].rows, w \in seen[c].roles :
           /\ row.role # "admin" /\ OwnerOf[r.fn] # r.user
           /\ OwnerOf[r.fn] = "workspace" => w = None
        BY <1>2, <1>3, <1>5, CanViewTells
  <2>2. \A m, a \in BOOLEAN : May(r, row, w, m, a) = FALSE
        BY <2>1, <1>1 DEF May, FnOps, Reads
  <2>3. Allowed(r, seen[c], FALSE) BY <2>2, <1>2, SomeSettings
  <2>4. Reason(r, seen[c], "notFound") BY <2>3 DEF Reason
  <2>5. "notFound" \in Answers BY DEF Answers
  <2> QED BY <1>1, <1>2, <1>5, <2>4, <2>5, AnswerKeeps DEF ListOfOwner, Owner
<1> QED BY <1>4, <1>5

\* Functions of one owner are seen by the same users.
LEMMA ListByOwnerKeeps ==
    ASSUME IInv, NEW c \in Calls, ListByOwner(c)
    PROVE  IInv'
<1> DEFINE r == call[c].req
           vs == {f \in Fns : fns[f] # None /\ OwnerOf[f] = Owner(c)}
<1>1. /\ call[c].pc = "listing" /\ UNCHANGED <<store, mcp, dash, seen>>
      /\ Shows(c, vs, call[c].out)
      BY DEF ListByOwner
<1>2. Underway(call[c]) /\ call[c].pc \in Permitted \ {"serve"} BY <1>1 DEF Underway, Permitted
<1>3. PlaceAt(call[c], seen[c], "listing") /\ r \in Request /\ r.fn \in Fns
      BY <1>1, <1>2, UnderwayHas
<1>4. /\ r.op = "listOwner" /\ Viewed(r, seen[c], r.fn) /\ Allowed(r, seen[c], TRUE)
      BY <1>3 DEF PlaceAt, Permitted
<1>5. \A f \in vs : Viewed(r, seen[c], f)
  <2> SUFFICES ASSUME NEW f \in Fns, OwnerOf[f] = OwnerOf[r.fn] PROVE Viewed(r, seen[c], f)
      BY DEF Owner
  <2>1. PICK row \in seen[c].rows, w \in seen[c].roles :
           May([r EXCEPT !.op = "get", !.fn = r.fn], row, w, FALSE, FALSE)
        BY <1>4 DEF Viewed
  <2>2. May([r EXCEPT !.op = "get", !.fn = f], row, w, FALSE, FALSE)
        BY <2>1, <1>3 DEF May, Request
  <2> QED BY <2>2 DEF Viewed
<1>6. call[c].out \in Output BY DEF IInv, TypeOK, Call
<1>7. vs \in SUBSET (Vers \cup Calls \cup Fns) OBVIOUS
<1> HIDE DEF vs
<1> QED BY <1>1, <1>2, <1>4, <1>5, <1>6, <1>7, ShowsKeeps

\* Of all functions those are listed that the caller may see.
LEMMA ListFunctionsKeeps ==
    ASSUME IInv, NEW c \in Calls, ListFunctions(c)
    PROVE  IInv'
<1> DEFINE r == call[c].req
           vs == {f \in Fns : fns[f] # None /\ CanView(call[c].actor, OwnerOf[f])}
<1>1. /\ call[c].pc = "op" /\ r.op = "list" /\ UNCHANGED <<store, mcp, dash, seen>>
      /\ Shows(c, vs, call[c].out)
      BY DEF ListFunctions
<1>2. Underway(call[c]) /\ call[c].pc \in Acting BY <1>1 DEF Underway, Acting
<1>3. Known(r, seen[c], call[c].actor) /\ Watched(r, seen[c]) BY <1>2, UnderwayHas DEF PlaceAt
<1>4. \A f \in vs : Viewed(r, seen[c], f) BY <1>2, CanViewTells
<1>5. PICK row \in seen[c].rows : row.status = "active" BY <1>3 DEF Known
<1>6. members[r.user] \in seen[c].roles BY <1>3 DEF Watched
<1>7. \A m, a \in BOOLEAN : May(r, row, members[r.user], m, a) = TRUE BY <1>1, <1>5 DEF May
<1>8. Allowed(r, seen[c], TRUE) BY <1>2, <1>6, <1>7, SomeSettings
<1>9. call[c].out \in Output BY DEF IInv, TypeOK, Call
<1>10. vs \in SUBSET (Vers \cup Calls \cup Fns) OBVIOUS
<1> HIDE DEF vs
<1> QED BY <1>1, <1>4, <1>8, <1>9, <1>10, ShowsKeeps

\* requireOrgAdminActor, for somebody known, tells whether the caller could do what is
\* for admins alone.
LEMMA AdminTells ==
    ASSUME IInv, NEW c \in Calls, call[c].pc = "op", call[c].req.op \in OrgOps
    PROVE  /\ requireOrgAdminActor(c) => Allowed(call[c].req, seen[c], TRUE)
           /\ ~requireOrgAdminActor(c) => Allowed(call[c].req, seen[c], FALSE)
<1> DEFINE r == call[c].req
<1>1. Underway(call[c]) /\ call[c].pc \in Acting BY DEF Underway, Acting
<1>2. Known(r, seen[c], call[c].actor) /\ Watched(r, seen[c]) BY <1>1, UnderwayHas DEF PlaceAt
<1>3. PICK row \in seen[c].rows : row.status = "active" /\ row.role = call[c].actor.role
      BY <1>2 DEF Known
<1>4. members[r.user] \in seen[c].roles BY <1>2 DEF Watched
<1>5. requireOrgAdminActor(c) => \A m, a \in BOOLEAN : May(r, row, members[r.user], m, a) = TRUE
      BY <1>3 DEF May, requireOrgAdminActor, CanUpdateOrgSettings, IsOrgAdmin
<1>6. ~requireOrgAdminActor(c) => \A m, a \in BOOLEAN : May(r, row, members[r.user], m, a) = FALSE
      BY <1>3 DEF May, requireOrgAdminActor, CanUpdateOrgSettings, IsOrgAdmin, OrgOps, FnOps, Reads
<1> QED BY <1>1, <1>4, <1>5, <1>6, SomeSettings

\* What is for admins alone is answered to them alone.
LEMMA AdminAnswered ==
    ASSUME IInv, NEW c \in Calls, call[c].pc = "op", call[c].req.op \in OrgOps,
           UNCHANGED <<store, mcp, dash, seen>>,
           \/ requireOrgAdminActor(c) /\ Answer(c, "ok")
           \/ ~requireOrgAdminActor(c) /\ Answer(c, "forbidden")
    PROVE  IInv'
<1> DEFINE r == call[c].req
<1>1. Underway(call[c]) /\ call[c].pc \in Acting BY DEF Underway, Acting
<1>2. Opens(r) BY <1>1, UnderwayHas DEF PlaceAt, Known
<1>3. r.op \notin FnOps BY DEF FnOps, OrgOps, Reads
<1>4. requireOrgAdminActor(c) => Reason(r, seen[c], "ok") BY <1>2, AdminTells DEF Reason
<1>5. ~requireOrgAdminActor(c) => Reason(r, seen[c], "forbidden") BY <1>3, AdminTells DEF Reason
<1>6. "ok" \in Answers /\ "forbidden" \in Answers BY DEF Answers
<1> QED BY <1>1, <1>4, <1>5, <1>6, AnswerKeeps

\* ListUsers and ListAuditLogs.
LEMMA ListUsersKeeps ==
    ASSUME IInv, NEW c \in Calls, ListUsers(c) \/ ListAuditLogs(c)
    PROVE  IInv'
<1>1. /\ call[c].pc = "op" /\ call[c].req.op \in OrgOps /\ UNCHANGED <<store, mcp, dash, seen>>
      /\ Answer(c, IF requireOrgAdminActor(c) THEN "ok" ELSE "forbidden")
      BY DEF ListUsers, ListAuditLogs, OrgOps
<1> QED BY <1>1, AdminAnswered

\* The row that is read is one of an active admin, or somebody else was one, or none.
LEMMA PatchUserKeeps ==
    ASSUME IInv, NEW c \in Calls, PatchUser(c)
    PROVE  IInv'
<1> DEFINE r == call[c].req
<1>1. /\ call[c].pc = "op" /\ r.op = "patch" /\ UNCHANGED <<store, mcp, dash, seen>>
      /\ r.op \in OrgOps
      BY DEF PatchUser, OrgOps
<1>2. CASE ~requireOrgAdminActor(c) BY <1>1, <1>2, AdminAnswered DEF PatchUser
<1>3. CASE requireOrgAdminActor(c)
  <2>1. Underway(call[c]) /\ call[c].pc \in Acting BY <1>1 DEF Underway, Acting
  <2>2. /\ Asks(r) /\ r.target \in Users /\ Watched(r, seen[c])
        /\ Known(r, seen[c], call[c].actor)
        BY <2>1, UnderwayHas DEF PlaceAt
  <2>3. Allowed(r, seen[c], TRUE) BY <1>1, <1>3, AdminTells
  <2> DEFINE u == users[r.target]
             k == [call[c] EXCEPT !.pc = "count", !.row = u]
  <2>4. u \in UserRow /\ call \in [Calls -> Call] /\ call[c] \in Call
        BY <2>2 DEF IInv, TypeOK
  <2>5. u = ActiveAdmin \/ NotAlone(r, seen[c])
    <3>1. ActiveAdmins \in seen[c].admins BY <2>2 DEF Watched
    <3>2. u # ActiveAdmin => r.target \notin ActiveAdmins BY DEF ActiveAdmins, ActiveAdmin
    <3> QED BY <3>1, <3>2 DEF NotAlone
  <2>6. call' = [call EXCEPT ![c].pc = "count", ![c].row = u] BY <1>3 DEF PatchUser
  <2> HIDE DEF u
  <2>7. k \in Call BY <2>4 DEF Call, Places
  <2>8. call' = [call EXCEPT ![c] = k] BY <2>4, <2>6
  <2>9. /\ k.pc = "count" /\ k.row = u /\ k.req = call[c].req /\ k.ans = call[c].ans
        /\ k.out = call[c].out /\ k.shown = call[c].shown /\ k.actor = call[c].actor
        BY <2>4 DEF Call
  <2> HIDE DEF k
  <2>10. PlaceAt(k, seen[c], k.pc) BY <1>1, <2>2, <2>3, <2>4, <2>5, <2>9 DEF PlaceAt
  <2>11. Underway(k) /\ k.pc \notin Resolved BY <2>9 DEF Underway, Resolved
  <2>12. dash' \in {"none", "pool", "err"} BY <1>1 DEF IInv, TypeOK
  <2> QED BY <1>1, <2>1, <2>7, <2>8, <2>9, <2>10, <2>11, <2>12, MoveKeeps
<1> QED BY <1>2, <1>3

\* Who is not taken away stays an active admin; for the others somebody else was.
LEMMA CountAdminsKeeps ==
    ASSUME IInv, NEW c \in Calls, CountAdmins(c)
    PROVE  IInv'
<1> DEFINE r == call[c].req
<1>1. call[c].pc = "count" /\ UNCHANGED <<store, mcp, dash, seen>> BY DEF CountAdmins
<1>2. Underway(call[c]) BY <1>1 DEF Underway
<1>3. PlaceAt(call[c], seen[c], "count") /\ Watched(r, seen[c]) /\ r \in Request
      BY <1>1, <1>2, UnderwayHas
<1>4. ActiveAdmins \in seen[c].admins BY <1>3 DEF Watched
<1>5. CASE Demotes(c) /\ ActiveAdmins \ {r.target} = {}
  <2>1. ActiveAdmins \subseteq {r.target} BY <1>5
  <2>2. r.op = "patch" BY <1>3 DEF PlaceAt
  <2>3. Reason(r, seen[c], "conflict") BY <1>4, <2>1, <2>2 DEF Reason
  <2>4. "conflict" \in Answers BY DEF Answers
  <2> QED BY <1>1, <1>2, <1>5, <2>3, <2>4, AnswerKeeps DEF CountAdmins
<1>6. CASE ~(Demotes(c) /\ ActiveAdmins \ {r.target} = {})
  <2>1. Stays(call[c]) \/ NotAlone(r, seen[c])
    <3>1. CASE Demotes(c) BY <1>4, <1>6, <3>1 DEF NotAlone
    <3>2. CASE ~Demotes(c) /\ call[c].row = ActiveAdmin
      <4>1. call[c].row.role = "admin" /\ call[c].row.status = "active" BY <3>2 DEF ActiveAdmin
      <4>2. Patched(c).role = "admin" /\ Patched(c).status = "active" BY <3>2, <4>1 DEF Demotes
      <4>3. r.to.role \in {None, "admin"} /\ r.to.status \in {None, "active"} BY <4>2 DEF Patched
      <4> QED BY <3>2, <4>3 DEF Stays
    <3>3. CASE call[c].row # ActiveAdmin BY <1>3, <3>3 DEF PlaceAt
    <3> QED BY <3>1, <3>2, <3>3
  <2>2. PlaceAt(call[c], seen[c], "write") BY <1>3, <2>1 DEF PlaceAt, Acting, Permitted
  <2>3. "write" \in Places \ {"idle", "done", "over"} /\ "write" \notin Resolved
        BY DEF Places, Resolved
  <2> QED BY <1>1, <1>2, <1>6, <2>2, <2>3, GotoKeeps DEF CountAdmins
<1> QED BY <1>5, <1>6

\* A function is invoked for an active user.
LEMMA InvokeKeeps ==
    ASSUME IInv, NEW c \in Calls, Invoke(c)
    PROVE  IInv'
<1> DEFINE r == call[c].req
<1>1. /\ call[c].pc = "op" /\ r.op = "invoke" /\ UNCHANGED <<store, mcp, dash, seen>>
      BY DEF Invoke
<1>2. Underway(call[c]) /\ call[c].pc \in Acting BY <1>1 DEF Underway, Acting
<1>3. Asks(r) /\ Known(r, seen[c], call[c].actor) /\ Watched(r, seen[c])
      BY <1>2, UnderwayHas DEF PlaceAt
<1>4. CASE Answer(c, "denied")
  <2>1. Reason(r, seen[c], "denied") BY DEF Reason
  <2>2. "denied" \in Answers BY DEF Answers
  <2> QED BY <1>1, <1>2, <1>4, <2>1, <2>2, AnswerKeeps
<1>5. CASE Goto(c, "serve")
  <2>1. PICK row \in seen[c].rows : row.status = "active" BY <1>3 DEF Known
  <2>2. members[r.user] \in seen[c].roles BY <1>3 DEF Watched
  <2>3. \A m, a \in BOOLEAN : May(r, row, members[r.user], m, a) = TRUE BY <1>1, <2>1 DEF May
  <2>4. Allowed(r, seen[c], TRUE) BY <1>2, <2>2, <2>3, SomeSettings
  <2>5. PlaceAt(call[c], seen[c], "serve") BY <1>1, <1>3, <2>4 DEF PlaceAt
  <2>6. "serve" \in Places \ {"idle", "done", "over"} /\ "serve" \notin Resolved
        BY DEF Places, Resolved
  <2> QED BY <1>1, <1>2, <1>5, <2>5, <2>6, GotoKeeps
<1> QED BY <1>4, <1>5 DEF Invoke

\* What is kept is the smaller of the cap and what was written, however it is cut
\* into writes.
LEMMA RecordKeeps ==
    ASSUME NEW out \in Written, NEW n \in Nat,
           out.kept = IF out.total > BodyCap THEN BodyCap ELSE out.total
    PROVE  /\ Record(out, n) \in Written
           /\ Record(out, n).kept =
                 IF Record(out, n).total > BodyCap THEN BodyCap ELSE Record(out, n).total
           /\ Record(out, n).cut <=> Record(out, n).total > BodyCap
<1>1. BodyCap \in Nat BY CapsAssumption
<1>2. out.kept \in Nat /\ out.total \in Nat BY DEF Written
<1> DEFINE room == BodyCap - out.kept
           kept == out.kept + (IF room > n THEN n ELSE room)
           total == out.total + n
<1>3. kept \in Nat /\ total \in Nat /\ kept = IF total > BodyCap THEN BodyCap ELSE total
      BY <1>1, <1>2
<1> DEFINE cut == total > BodyCap
           next == Record(out, n)
<1>4. next = [kept |-> kept, total |-> total, cut |-> cut] BY DEF Record
<1>5. cut \in BOOLEAN BY <1>1, <1>3
<1>6. cut <=> total > BodyCap OBVIOUS
<1> HIDE DEF kept, total, cut, next
<1>7. next.kept = kept /\ next.total = total /\ next.cut = cut BY <1>4
<1>8. next \in Written BY <1>3, <1>4, <1>5 DEF Written
<1>9. next.kept = IF next.total > BodyCap THEN BodyCap ELSE next.total BY <1>3, <1>7
<1>10. next.cut <=> next.total > BodyCap BY <1>6, <1>7
<1> QED BY <1>8, <1>9, <1>10 DEF next

\* Record keeps what is written within the cap.
LEMMA GuestWritesKeeps ==
    ASSUME IInv, NEW c \in Calls, GuestWrites(c)
    PROVE  IInv'
<1>1. call[c].pc = "serve" /\ UNCHANGED <<store, mcp, dash, seen>> BY DEF GuestWrites
<1>2. Underway(call[c]) BY <1>1 DEF Underway
<1>3. PlaceAt(call[c], seen[c], "serve") BY <1>1, <1>2, UnderwayHas
<1>4. call \in [Calls -> Call] /\ call[c] \in Call BY DEF IInv, TypeOK
<1>5. PICK n \in Chunks : call' = [call EXCEPT ![c].out = Record(call[c].out, n)]
      BY <1>4 DEF GuestWrites
<1>6. n \in Nat BY CapsAssumption
<1>7. /\ call[c].out \in Written
      /\ call[c].out.kept = IF call[c].out.total > BodyCap THEN BodyCap ELSE call[c].out.total
  <2>1. BodyCap \in Nat BY CapsAssumption
  <2>2. CASE call[c].out = Unwritten BY <2>1, <2>2 DEF Unwritten, Written
  <2> QED BY <1>1, <2>2 DEF IInv, OutInv, OutOf
<1> DEFINE o == Record(call[c].out, n)
           k == [call[c] EXCEPT !.out = o]
<1>8. /\ o \in Written /\ o.kept = IF o.total > BodyCap THEN BodyCap ELSE o.total
      /\ o.cut <=> o.total > BodyCap
      BY <1>6, <1>7, RecordKeeps
<1>9. call' = [call EXCEPT ![c].out = o] BY <1>5
<1> HIDE DEF o
<1>10. o \in Output BY <1>8 DEF Written, Output
<1>11. k \in Call BY <1>4, <1>10 DEF Call
<1>12. call' = [call EXCEPT ![c] = k] BY <1>4, <1>9
<1>13. /\ k.pc = "serve" /\ k.out = o /\ k.req = call[c].req /\ k.ans = call[c].ans
       /\ k.shown = call[c].shown /\ k.actor = call[c].actor
       BY <1>1, <1>4 DEF Call
<1> HIDE DEF k
<1>14. PlaceAt(k, seen[c], "serve") BY <1>3, <1>13 DEF PlaceAt
<1>15. k.req.op = "invoke" BY <1>3, <1>13 DEF PlaceAt
<1>16. OutOf(k) BY <1>8, <1>13, <1>15 DEF OutOf
<1>17. k.shown = {} /\ k.ans = None BY <1>1, <1>2, <1>13, UnderwayHas DEF IInv, CallInv, CallOf
<1>18. CallOf(k, seen[c]) BY <1>13, <1>14, <1>17 DEF CallOf
<1>19. RowOf(call, c)' BY <1>4, <1>12, <1>13 DEF RowOf, Resolved
<1>20. dash' \in {"none", "pool", "err"} BY <1>1 DEF IInv, TypeOK
<1> QED BY <1>1, <1>2, <1>11, <1>12, <1>13, <1>16, <1>17, <1>18, <1>19, <1>20, QuietKeeps

\* The invocation ends, and what was kept is returned.
LEMMA GuestEndsKeeps ==
    ASSUME IInv, NEW c \in Calls, GuestEnds(c)
    PROVE  IInv'
<1>1. Underway(call[c]) /\ call[c].pc \in Permitted /\ call[c].pc \in Acting
      BY DEF GuestEnds, Underway, Permitted, Acting
<1>2. Allowed(call[c].req, seen[c], TRUE) /\ Opens(call[c].req)
      BY <1>1, UnderwayHas DEF PlaceAt, Known
<1>3. Reason(call[c].req, seen[c], "ok") BY <1>2 DEF Reason
<1>4. "ok" \in Answers BY DEF Answers
<1> QED BY <1>1, <1>3, <1>4, AnswerKeeps DEF GuestEnds

-----------------------------------------------------------------------------
(***************************************************************************)
(* Steps that others see.                                                  *)
(***************************************************************************)

\* Watch tells every call under way how things are now.
LEMMA WatchEffect ==
    ASSUME IInv, Watch, users' \in [Users -> UserRow], members' \in [Users -> WsRoles],
           conf' \in Conf, fns' \in [Fns -> FnRow \cup {None}]
    PROVE  /\ seen' \in [Calls -> View]
           /\ \A q \in Calls : Grows(seen[q], seen'[q])
           /\ \A q \in Calls : Underway(call[q]) =>
                 LET r == call[q].req IN
                 /\ users'[r.user] \in seen'[q].rows /\ members'[r.user] \in seen'[q].roles
                 /\ conf'.memberCanDeploy \in seen'[q].mcd
                 /\ conf'.allowUserFunctions \in seen'[q].auf
                 /\ fns'[r.fn] \in seen'[q].fn /\ ActiveAdmins' \in seen'[q].admins
<1> DEFINE New(q) ==
             LET r == call[q].req IN
             [rows  |-> seen[q].rows \cup {users'[r.user]},
              roles |-> seen[q].roles \cup {members'[r.user]},
              mcd   |-> seen[q].mcd \cup {conf'.memberCanDeploy},
              auf   |-> seen[q].auf \cup {conf'.allowUserFunctions},
              fn    |-> seen[q].fn \cup {fns'[r.fn]},
              admins |-> seen[q].admins \cup {ActiveAdmins'}]
<1>1. seen' = [q \in Calls |-> IF Underway(call[q]) THEN New(q) ELSE seen[q]]
      BY DEF Watch, Underway
<1>2. seen \in [Calls -> View] BY DEF IInv, TypeOK
<1>3. ASSUME NEW q \in Calls, Underway(call[q]) PROVE New(q) \in View
  <2>1. call[q].req.user \in Users /\ call[q].req.fn \in Fns BY <1>3, UnderwayHas
  <2>2. /\ users'[call[q].req.user] \in UserRow /\ members'[call[q].req.user] \in WsRoles
        /\ fns'[call[q].req.fn] \in FnRow \cup {None}
        BY <2>1
  <2>3. conf'.memberCanDeploy \in BOOLEAN /\ conf'.allowUserFunctions \in BOOLEAN BY DEF Conf
  <2>4. ActiveAdmins' \in SUBSET Users BY DEF ActiveAdmins
  <2> QED BY <1>2, <2>2, <2>3, <2>4 DEF View
<1>4. ASSUME NEW q \in Calls PROVE Grows(seen[q], New(q)) BY DEF Grows
<1>5. ASSUME NEW q \in Calls PROVE Grows(seen[q], seen[q]) BY DEF Grows
<1>6. seen' \in [Calls -> View]
  <2> HIDE DEF New
  <2> QED BY <1>1, <1>2, <1>3
<1>7. \A q \in Calls : Grows(seen[q], seen'[q])
  <2> HIDE DEF New
  <2> QED BY <1>1, <1>4, <1>5
<1>8. ASSUME NEW q \in Calls, Underway(call[q]) PROVE seen'[q] = New(q) BY <1>1, <1>8
<1> QED BY <1>6, <1>7, <1>8

\* The row of a function after a change is one, and keeps all versions.
LEMMA AfterIs ==
    ASSUME NEW c \in Calls, NEW f \in FnRow, f.active \in f.rows, call[c].req.op \in Changing,
           call[c].req.op # "delete",
           call[c].req.op = "rollback" => call[c].req.ver \in f.rows
    PROVE  /\ After(c, f) \in FnRow /\ After(c, f).active \in After(c, f).rows
           /\ f.rows \subseteq After(c, f).rows
           /\ \A v \in After(c, f).rows :
                 v \in f.rows \/ (v = c /\ call[c].req.op = "deploy")
<1>1. CASE call[c].req.op = "deploy"
  <2>1. After(c, f) = [f EXCEPT !.active = c, !.rows = f.rows \cup {c}] BY <1>1 DEF After, FnRow
  <2>2. After(c, f) \in FnRow BY <2>1 DEF FnRow
  <2>3. After(c, f).active = c /\ After(c, f).rows = f.rows \cup {c} BY <2>1 DEF FnRow
  <2> QED BY <1>1, <2>2, <2>3
<1>2. CASE call[c].req.op = "rollback"
  <2> DEFINE v == call[c].req.ver
  <2>1. v \in f.rows /\ v \in Vers \cup Calls BY <1>2 DEF FnRow
  <2>2. After(c, f) = [f EXCEPT !.active = v] BY <1>2 DEF After
  <2> HIDE DEF v
  <2>3. After(c, f) \in FnRow BY <2>1, <2>2 DEF FnRow
  <2>4. After(c, f).active = v /\ After(c, f).rows = f.rows BY <2>2 DEF FnRow
  <2> QED BY <2>1, <2>3, <2>4
<1>3. CASE call[c].req.op = "setenv"
  <2>1. After(c, f) = f BY <1>3 DEF After
  <2> QED BY <2>1
<1> QED BY <1>1, <1>2, <1>3 DEF Changing

\* The call that changes a function goes to audit, or is told why it may not.
LEMMA ActMoves ==
    ASSUME IInv, NEW c \in Calls, Act(c)
    PROVE  \E k \in Call :
              /\ call' = [call EXCEPT ![c] = k]
              /\ k.req = call[c].req /\ k.out = call[c].out /\ k.shown = {} /\ k.row = call[c].row
              /\ k.actor = call[c].actor
              /\ IF Acted(c) THEN k.pc = "audit" /\ k.ans = None
                 ELSE k.pc = "done" /\ k.ans = Refusal[call[c].req.op] /\ k.ans \in Answers
<1>1. call[c].pc = "act" BY DEF Act
<1>2. Underway(call[c]) BY <1>1 DEF Underway
<1>3. PlaceAt(call[c], seen[c], "act") /\ call[c].ans = None BY <1>1, <1>2, UnderwayHas
<1>4. call \in [Calls -> Call] /\ call[c] \in Call BY DEF IInv, TypeOK
<1>5. call[c].shown = {} BY <1>1 DEF IInv, CallInv, CallOf
<1>6. CASE Acted(c)
  <2> DEFINE k == [call[c] EXCEPT !.pc = "audit"]
  <2>1. k \in Call BY <1>4 DEF Call, Places
  <2>2. call' = [call EXCEPT ![c] = k] BY <1>4, <1>6 DEF Act, Goto
  <2>3. /\ k.pc = "audit" /\ k.req = call[c].req /\ k.ans = call[c].ans /\ k.out = call[c].out
        /\ k.shown = call[c].shown /\ k.row = call[c].row /\ k.actor = call[c].actor
        BY <1>4 DEF Call
  <2> HIDE DEF k
  <2> QED BY <1>3, <1>5, <1>6, <2>1, <2>2, <2>3
<1>7. CASE ~Acted(c)
  <2> DEFINE a == Refusal[call[c].req.op]
             k == [call[c] EXCEPT !.pc = "done", !.ans = a]
  <2>1. call[c].req.op \in {"rollback", "setenv", "deploy"}
        BY <1>3, <1>7 DEF PlaceAt, Changing, Acted
  <2>2. a \in Answers BY <2>1 DEF Refusal, Answers
  <2>3. call' = [call EXCEPT ![c].pc = "done", ![c].ans = a] BY <1>7 DEF Act, Answer
  <2> HIDE DEF a
  <2>4. k \in Call BY <1>4, <2>2 DEF Call, Places
  <2>5. call' = [call EXCEPT ![c] = k] BY <1>4, <2>3
  <2>6. /\ k.pc = "done" /\ k.ans = a /\ k.req = call[c].req /\ k.out = call[c].out
        /\ k.shown = call[c].shown /\ k.row = call[c].row /\ k.actor = call[c].actor
        BY <1>4 DEF Call
  <2> HIDE DEF k
  <2> QED BY <1>5, <1>7, <2>2, <2>4, <2>5, <2>6 DEF a
<1> QED BY <1>6, <1>7

\* A change of a function gives it versions of its own only, and takes none away.
LEMMA ActKeeps ==
    ASSUME IInv, NEW c \in Calls, Act(c)
    PROVE  IInv'
<1> DEFINE r == call[c].req
<1>1. /\ call[c].pc = "act" /\ Watch /\ UNCHANGED <<users, members, conf, changes, mcp, dash>>
      BY DEF Act
<1>2. Underway(call[c]) BY <1>1 DEF Underway
<1>3. PlaceAt(call[c], seen[c], "act") /\ r.fn \in Fns /\ Asks(r) /\ Watched(r, seen[c])
      BY <1>1, <1>2, UnderwayHas
<1>4. r.op \in Changing BY <1>3 DEF PlaceAt
<1>5. PICK k \in Call :
         /\ call' = [call EXCEPT ![c] = k]
         /\ k.req = r /\ k.out = call[c].out /\ k.shown = {} /\ k.row = call[c].row
         /\ k.actor = call[c].actor
         /\ IF Acted(c) THEN k.pc = "audit" /\ k.ans = None
            ELSE k.pc = "done" /\ k.ans = Refusal[r.op] /\ k.ans \in Answers
      BY ActMoves
<1>6. /\ call' \in [Calls -> Call] /\ call'[c] = k /\ \A q \in Calls \ {c} : call'[q] = call[q]
      BY <1>5 DEF IInv, TypeOK
<1>7. /\ fns \in [Fns -> FnRow \cup {None}]
      /\ \A f \in Fns : fns[f] # None => fns[f] \in FnRow /\ fns[f].active \in fns[f].rows
      BY DEF IInv, TypeOK
<1>8. \/ fns' = fns
      \/ Acted(c) /\ fns' = [fns EXCEPT ![r.fn] = None]
      \/ /\ Acted(c) /\ fns' = [fns EXCEPT ![r.fn] = After(c, fns[r.fn])]
         /\ r.op # "delete" /\ fns[r.fn] # None /\ (r.op = "rollback" => r.ver \in fns[r.fn].rows)
      BY <1>4 DEF Act, Acted, After
<1>9. /\ fns' \in [Fns -> FnRow \cup {None}]
      /\ \A f \in Fns : fns'[f] # None =>
            /\ fns'[f].active \in fns'[f].rows
            /\ fns[f] # None /\ fns[f].rows \subseteq fns'[f].rows
            /\ \A v \in fns'[f].rows :
                  v \in fns[f].rows \/ (v = c /\ f = r.fn /\ r.op = "deploy" /\ Acted(c))
  <2>1. CASE fns' = fns BY <1>7, <2>1
  <2>2. CASE fns' = [fns EXCEPT ![r.fn] = None] BY <1>3, <1>7, <2>2
  <2>3. CASE /\ Acted(c) /\ fns' = [fns EXCEPT ![r.fn] = After(c, fns[r.fn])]
             /\ r.op # "delete" /\ fns[r.fn] # None
             /\ r.op = "rollback" => r.ver \in fns[r.fn].rows
    <3> DEFINE g == After(c, fns[r.fn])
    <3>1. fns[r.fn] \in FnRow /\ fns[r.fn].active \in fns[r.fn].rows BY <1>3, <1>7, <2>3
    <3>2. /\ g \in FnRow /\ g.active \in g.rows /\ fns[r.fn].rows \subseteq g.rows
          /\ \A v \in g.rows : v \in fns[r.fn].rows \/ (v = c /\ r.op = "deploy")
          BY <1>4, <2>3, <3>1, AfterIs
    <3>3. fns' = [fns EXCEPT ![r.fn] = g] BY <2>3
    <3> HIDE DEF g
    <3> QED BY <1>3, <1>7, <2>3, <3>2, <3>3
  <2> QED BY <1>8, <2>1, <2>2, <2>3
<1>10. Lasting BY <1>9 DEF Lasting
<1>11. users' \in [Users -> UserRow] /\ members' \in [Users -> WsRoles] /\ conf' \in Conf
       BY <1>1 DEF IInv, TypeOK
<1>12. /\ seen' \in [Calls -> View]
       /\ \A q \in Calls : Grows(seen[q], seen'[q])
       /\ \A q \in Calls : Underway(call[q]) =>
             /\ users'[call[q].req.user] \in seen'[q].rows
             /\ members'[call[q].req.user] \in seen'[q].roles
             /\ conf'.memberCanDeploy \in seen'[q].mcd
             /\ conf'.allowUserFunctions \in seen'[q].auf
             /\ fns'[call[q].req.fn] \in seen'[q].fn /\ ActiveAdmins' \in seen'[q].admins
       BY <1>1, <1>9, <1>11, WatchEffect
<1>13. \A q \in Calls : Underway(call'[q]) => Watched(call[q].req, seen[q])'
  <2> SUFFICES ASSUME NEW q \in Calls, Underway(call'[q]) PROVE Watched(call[q].req, seen[q])'
      OBVIOUS
  <2>1. Underway(call[q]) /\ call'[q].req = call[q].req BY <1>2, <1>5, <1>6
  <2> QED BY <1>12, <2>1 DEF Watched
<1>14. k.pc = "done" <=> k.ans # None BY <1>5, NoneAssumption
<1>15. TypeOK'
       BY <1>1, <1>6, <1>9, <1>11, <1>12, <1>14 DEF IInv, TypeOK, mcp
<1>16. HomeInv'
  <2> SUFFICES ASSUME NEW f \in Fns, fns'[f] # None, NEW v \in fns'[f].rows
               PROVE  Home(call', v, f)
      BY DEF HomeInv
  <2>1. CASE v \in fns[f].rows
    <3>1. Home(call, v, f) BY <1>9, <2>1 DEF IInv, HomeInv
    <3>2. call[c].pc \notin {"audit", "done", "over"} BY <1>1
    <3> QED BY <1>6, <3>1, <3>2 DEF Home
  <2>2. CASE v = c /\ f = r.fn /\ r.op = "deploy" /\ Acted(c) BY <1>3, <1>5, <1>6, <2>2 DEF Home
  <2> QED BY <1>9, <2>1, <2>2
<1>17. CallOf(k, seen[c])
  <2>1. CASE Acted(c)
    <3>1. PlaceAt(k, seen[c], "audit")
          BY <1>3, <1>4, <1>5, <2>1 DEF PlaceAt, Acting, Permitted
    <3> QED BY <1>5, <2>1, <3>1 DEF CallOf
  <2>2. CASE ~Acted(c)
    <3>1. r.op \in {"rollback", "setenv", "deploy"} BY <1>4, <2>2 DEF Changing, Acted
    <3>2. fns[r.fn] \in seen[c].fn BY <1>3 DEF Watched
    <3>3. fns[r.fn] = None \/ (r.op = "rollback" /\ r.ver \notin fns[r.fn].rows)
          BY <2>2 DEF Acted
    <3>4. r.op = "rollback" => r.ver # None BY <1>3 DEF Asks
    <3>5. Reason(r, seen[c], Refusal[r.op])
      <4>1. CASE r.op = "deploy"
        <5>1. Refusal[r.op] = "conflict" BY <4>1 DEF Refusal
        <5> QED BY <3>2, <3>3, <4>1, <5>1 DEF Reason
      <4>2. CASE r.op = "setenv"
        <5>1. Refusal[r.op] = "failed" BY <4>2 DEF Refusal
        <5> QED BY <5>1 DEF Reason
      <4>3. CASE r.op = "rollback"
        <5>1. Refusal[r.op] = "notFound" BY <4>3 DEF Refusal
        <5> QED BY <3>2, <3>3, <3>4, <4>3, <5>1 DEF Reason
      <4> QED BY <3>1, <4>1, <4>2, <4>3
    <3>6. Refusal[r.op] # "ok" BY <3>1 DEF Refusal
    <3> QED BY <1>3, <1>5, <2>2, <3>5, <3>6 DEF CallOf, Underway
  <2> QED BY <2>1, <2>2
<1>18. CallOf(call'[c], seen'[c]) BY <1>6, <1>12, <1>17, GrowsKeepsCall
<1>19. OutOf(call'[c]) BY <1>1, <1>5, <1>6 DEF IInv, OutInv, OutOf
<1>20. RowOf(call, c)'
  <2>1. call'[c].pc \notin Resolved /\ call'[c].shown = {} BY <1>5, <1>6 DEF Resolved
  <2> QED BY <2>1 DEF RowOf
<1> QED BY <1>1, <1>6, <1>10, <1>12, <1>13, <1>15, <1>16, <1>18, <1>19, <1>20, StepKeeps

\* The call that writes a user goes to audit.
LEMMA WriteUserMoves ==
    ASSUME IInv, NEW c \in Calls, WriteUser(c)
    PROVE  \E k \in Call :
              /\ call' = [call EXCEPT ![c] = k] /\ k.pc = "audit" /\ k.ans = None
              /\ k.req = call[c].req /\ k.out = call[c].out /\ k.shown = {}
              /\ k.actor = call[c].actor
<1> DEFINE k == [call[c] EXCEPT !.pc = "audit"]
<1>1. call[c].pc = "write" BY DEF WriteUser
<1>2. Underway(call[c]) BY <1>1 DEF Underway
<1>3. call \in [Calls -> Call] /\ call[c] \in Call BY DEF IInv, TypeOK
<1>4. k \in Call BY <1>3 DEF Call, Places
<1>5. call' = [call EXCEPT ![c] = k] BY <1>3 DEF WriteUser, Goto
<1>6. /\ k.pc = "audit" /\ k.req = call[c].req /\ k.ans = call[c].ans /\ k.out = call[c].out
      /\ k.shown = call[c].shown /\ k.actor = call[c].actor
      BY <1>3 DEF Call
<1> HIDE DEF k
<1>7. call[c].shown = {} /\ call[c].ans = None
      BY <1>1, <1>2, UnderwayHas DEF IInv, CallInv, CallOf
<1> QED BY <1>4, <1>5, <1>6, <1>7

\* A change of a user is seen by all calls under way.
LEMMA WriteUserKeeps ==
    ASSUME IInv, NEW c \in Calls, WriteUser(c)
    PROVE  IInv'
<1> DEFINE r == call[c].req
<1>1. /\ call[c].pc = "write" /\ Watch /\ UNCHANGED <<members, conf, fns, changes, mcp, dash>>
      /\ users' = [users EXCEPT ![r.target] = Patched(c)]
      BY DEF WriteUser
<1>2. Underway(call[c]) BY <1>1 DEF Underway
<1>3. PlaceAt(call[c], seen[c], "write") /\ r \in Request /\ r.target \in Users /\ Asks(r)
      BY <1>1, <1>2, UnderwayHas
<1>4. Patched(c) \in UserRow
  <2>1. call[c].row \in UserRow BY <1>3 DEF PlaceAt
  <2>2. r.to.role \in Roles \cup {None} /\ r.to.status \in Statuses \cup {None}
        BY <1>3 DEF Request
  <2> QED BY <2>1, <2>2 DEF Patched, UserRow
<1>5. PICK k \in Call :
         /\ call' = [call EXCEPT ![c] = k] /\ k.pc = "audit" /\ k.ans = None
         /\ k.req = r /\ k.out = call[c].out /\ k.shown = {} /\ k.actor = call[c].actor
      BY WriteUserMoves
<1>6. /\ call' \in [Calls -> Call] /\ call'[c] = k /\ \A q \in Calls \ {c} : call'[q] = call[q]
      BY <1>5 DEF IInv, TypeOK
<1>7. users' \in [Users -> UserRow] BY <1>1, <1>4 DEF IInv, TypeOK
<1>8. /\ members' \in [Users -> WsRoles] /\ conf' \in Conf
      /\ fns' \in [Fns -> FnRow \cup {None}]
      BY <1>1 DEF IInv, TypeOK
<1>9. /\ seen' \in [Calls -> View]
      /\ \A q \in Calls : Grows(seen[q], seen'[q])
      /\ \A q \in Calls : Underway(call[q]) =>
            /\ users'[call[q].req.user] \in seen'[q].rows
            /\ members'[call[q].req.user] \in seen'[q].roles
            /\ conf'.memberCanDeploy \in seen'[q].mcd
            /\ conf'.allowUserFunctions \in seen'[q].auf
            /\ fns'[call[q].req.fn] \in seen'[q].fn /\ ActiveAdmins' \in seen'[q].admins
      BY <1>1, <1>7, <1>8, WatchEffect
<1>10. \A q \in Calls : Underway(call'[q]) => Watched(call[q].req, seen[q])'
  <2> SUFFICES ASSUME NEW q \in Calls, Underway(call'[q]) PROVE Watched(call[q].req, seen[q])'
      OBVIOUS
  <2>1. Underway(call[q]) /\ call'[q].req = call[q].req BY <1>2, <1>5, <1>6
  <2> QED BY <1>9, <2>1 DEF Watched
<1>11. TypeOK' BY <1>1, <1>5, <1>6, <1>7, <1>8, <1>9 DEF IInv, TypeOK, mcp
<1>12. HomeInv'
  <2>1. ASSUME NEW v, NEW f, Home(call, v, f) PROVE Home(call', v, f)
        BY <1>1, <1>6, <2>1 DEF Home
  <2> QED BY <1>1, <2>1 DEF IInv, HomeInv
<1>13. PlaceAt(k, seen[c], "audit") BY <1>3, <1>5 DEF PlaceAt, Acting, Permitted
<1>14. CallOf(k, seen[c]) BY <1>5, <1>13 DEF CallOf
<1>15. CallOf(call'[c], seen'[c]) BY <1>6, <1>9, <1>14, GrowsKeepsCall
<1>16. OutOf(call'[c]) BY <1>1, <1>5, <1>6 DEF IInv, OutInv, OutOf
<1>17. RowOf(call, c)'
  <2>1. call'[c].pc \notin Resolved /\ call'[c].shown = {} BY <1>5, <1>6 DEF Resolved
  <2> QED BY <2>1 DEF RowOf
<1>18. Lasting BY <1>1 DEF Lasting
<1> QED BY <1>1, <1>6, <1>9, <1>10, <1>11, <1>12, <1>15, <1>16, <1>17, <1>18, StepKeeps

\* Members and settings change, and no call moves.
LEMMA ChangeKeeps ==
    ASSUME IInv, Change
    PROVE  IInv'
<1>1. /\ Watch /\ UNCHANGED <<users, fns>> /\ UNCHANGED <<mcp, dash, call>>
      /\ changes' = changes + 1 /\ changes < MaxChanges
      BY DEF Change
<1>2. members' \in [Users -> WsRoles] /\ conf' \in Conf
  <2>1. Moves.members \subseteq WsRoles /\ Moves.conf \subseteq Conf BY RowsAssumption
  <2> QED BY <2>1 DEF Change, IInv, TypeOK
<1>3. changes' \in 0..MaxChanges
  <2>1. MaxChanges \in Nat BY CapsAssumption
  <2> QED BY <1>1, <2>1 DEF IInv, TypeOK
<1>4. users' \in [Users -> UserRow] /\ fns' \in [Fns -> FnRow \cup {None}]
      BY <1>1 DEF IInv, TypeOK
<1>5. /\ seen' \in [Calls -> View]
      /\ \A q \in Calls : Grows(seen[q], seen'[q])
      /\ \A q \in Calls : Underway(call[q]) =>
            /\ users'[call[q].req.user] \in seen'[q].rows
            /\ members'[call[q].req.user] \in seen'[q].roles
            /\ conf'.memberCanDeploy \in seen'[q].mcd
            /\ conf'.allowUserFunctions \in seen'[q].auf
            /\ fns'[call[q].req.fn] \in seen'[q].fn /\ ActiveAdmins' \in seen'[q].admins
      BY <1>1, <1>2, <1>4, WatchEffect
<1>6. TypeOK' BY <1>1, <1>2, <1>3, <1>4, <1>5 DEF IInv, TypeOK, mcp
<1>7. CallInv'
  <2>1. ASSUME NEW q \in Calls PROVE CallOf(call[q], seen'[q])
        BY <1>5, GrowsKeepsCall DEF IInv, CallInv
  <2> QED BY <1>1, <2>1 DEF CallInv
<1>8. WatchInv' BY <1>1, <1>5 DEF WatchInv, Watched
<1>9. RowInv' BY <1>1 DEF IInv, RowInv, RowOf, ReadOf
<1>10. HomeInv' BY <1>1 DEF IInv, HomeInv
<1>11. OutInv' BY <1>1 DEF IInv, OutInv
<1> QED BY <1>6, <1>7, <1>8, <1>9, <1>10, <1>11 DEF IInv

\* Sessions of MCP come and go, and no call moves.
LEMMA SessionKeeps ==
    ASSUME IInv, NEW s \in Servers,
           Connect(s) \/ Close(s) \/ \E u \in Users : getServer(s, u)
    PROVE  IInv'
<1>1. UNCHANGED <<store, dash, call, seen>> BY DEF Connect, Close, getServer
<1> DEFINE T == [st : {"free", "opening", "live", "closed"}, user : Users \cup {None},
                 admin : BOOLEAN]
           Sound(x) == x \in T /\ (x.st # "free" => x.user \in Users)
<1>2. /\ servers \in [Servers -> T] /\ sessions \subseteq Servers
      /\ \A t \in Servers : Sound(servers[t])
      BY DEF IInv, TypeOK
<1>3. PICK x : Sound(x) /\ servers' \in {servers, [servers EXCEPT ![s] = x]}
  <2>1. CASE Connect(s)
    <3>1. PICK st \in {"live", "closed"} : servers' = [servers EXCEPT ![s].st = st]
          BY <2>1 DEF Connect
    <3>2. Sound([servers[s] EXCEPT !.st = st]) BY <1>2, <2>1 DEF Connect
    <3>3. servers' = [servers EXCEPT ![s] = [servers[s] EXCEPT !.st = st]] BY <1>2, <3>1
    <3> QED BY <3>2, <3>3
  <2>2. CASE Close(s)
    <3>1. Sound([servers[s] EXCEPT !.st = "closed"]) BY <1>2, <2>2 DEF Close
    <3>2. servers' = [servers EXCEPT ![s] = [servers[s] EXCEPT !.st = "closed"]]
          BY <1>2, <2>2 DEF Close
    <3> QED BY <3>1, <3>2
  <2>3. CASE \E u \in Users : getServer(s, u)
    <3>1. PICK u \in Users : getServer(s, u) BY <2>3
    <3>2. CASE servers' = servers BY <1>2, <3>2
    <3>3. CASE servers' # servers
      <4> DEFINE x == [st |-> "opening", user |-> u, admin |-> CanUpdateOrgSettings(Actor(u))]
      <4>1. Sound(x) BY DEF CanUpdateOrgSettings, IsOrgAdmin
      <4>2. servers' = [servers EXCEPT ![s] = x] BY <3>1, <3>3 DEF getServer
      <4> QED BY <4>1, <4>2
    <3> QED BY <3>2, <3>3
  <2> QED BY <2>1, <2>2, <2>3
<1>4. servers' \in [Servers -> T] /\ \A t \in Servers : Sound(servers'[t])
  <2>1. CASE servers' = servers BY <1>2, <2>1
  <2>2. CASE servers' = [servers EXCEPT ![s] = x]
    <3> HIDE DEF T
    <3> QED BY <1>2, <1>3, <2>2
  <2> QED BY <1>3, <2>1, <2>2
<1>5. sessions' \subseteq Servers
      BY <1>2 DEF Connect, Close, getServer, pruneClosedSessions
<1>6. TypeOK' BY <1>1, <1>4, <1>5 DEF IInv, TypeOK, store
<1>7. CallInv' BY <1>1 DEF IInv, CallInv
<1>8. WatchInv' BY <1>1 DEF IInv, WatchInv, Watched, ActiveAdmins, store
<1>9. RowInv' BY <1>1 DEF IInv, RowInv, RowOf, ReadOf, store
<1>10. HomeInv' BY <1>1 DEF IInv, HomeInv, store
<1>11. OutInv' BY <1>1 DEF IInv, OutInv
<1> QED BY <1>6, <1>7, <1>8, <1>9, <1>10, <1>11 DEF IInv

\* A call begins with what it finds.
LEMMA BeginKeeps ==
    ASSUME IInv, NEW c \in Calls, Begin(c)
    PROVE  IInv'
<1>1. call[c].pc = "idle" /\ UNCHANGED <<store, mcp, dash>> BY DEF Begin
<1>2. PICK r \in Requests[c] :
        /\ \E s \in (IF r.via = "mcp" THEN {t \in Servers : servers[t].st \in {"live", "closed"}}
                     ELSE {None}) :
              call' = [call EXCEPT ![c] =
                  [Idle EXCEPT !.req = r, !.server = s,
                      !.pc = IF r.via = "mcp" /\ ~conf.mcpEnabled THEN "done" ELSE "auth",
                      !.ans = IF r.via = "mcp" /\ ~conf.mcpEnabled THEN "off" ELSE None]]
        /\ seen' = [seen EXCEPT ![c] =
              [rows |-> {users[r.user]}, roles |-> {members[r.user]},
               mcd |-> {conf.memberCanDeploy}, auf |-> {conf.allowUserFunctions},
               fn |-> {fns[r.fn]}, admins |-> {ActiveAdmins}]]
      BY DEF Begin
<1>3. Asks(r) BY RequestsAssumption DEF Asks
<1>4. r \in Request /\ r.user \in Users /\ r.fn \in Fns BY <1>3 DEF Asks, Request
<1> DEFINE off == r.via = "mcp" /\ ~conf.mcpEnabled
           pc == IF off THEN "done" ELSE "auth"
           ans == IF off THEN "off" ELSE None
<1>5. PICK s \in Servers \cup {None} :
         call' = [call EXCEPT ![c] =
             [Idle EXCEPT !.req = r, !.server = s, !.pc = pc, !.ans = ans]]
      BY <1>2
<1> DEFINE k == [Idle EXCEPT !.req = r, !.server = s, !.pc = pc, !.ans = ans]
<1>6. /\ pc \in {"auth", "done"} /\ ans \in {"off", None} /\ (pc = "done" <=> ans # None)
      /\ pc = "done" => ans = "off"
  <2>1. None # "off" BY NoneAssumption DEF Answers
  <2> QED BY <2>1
<1> HIDE DEF off, pc, ans
<1>7. /\ k.req = r /\ k.pc = pc /\ k.ans = ans /\ k.shown = {} /\ k.out = Unwritten
      /\ k.server = s
      BY DEF Idle, Unwritten
<1>8. Unwritten \in Output BY DEF Unwritten, Output
<1>9. k \in Call
      BY <1>4, <1>6, <1>8 DEF Call, Idle, Places, Answers, Unwritten
<1> HIDE DEF k
<1>10. /\ call' \in [Calls -> Call] /\ call'[c] = k /\ \A q \in Calls \ {c} : call'[q] = call[q]
       BY <1>5, <1>9 DEF IInv, TypeOK, k
<1> DEFINE v == [rows |-> {users[r.user]}, roles |-> {members[r.user]},
                 mcd |-> {conf.memberCanDeploy}, auf |-> {conf.allowUserFunctions},
                 fn |-> {fns[r.fn]}, admins |-> {ActiveAdmins}]
<1>11. /\ v \in View
       /\ v.rows = {users[r.user]} /\ v.roles = {members[r.user]}
       /\ v.mcd = {conf.memberCanDeploy} /\ v.auf = {conf.allowUserFunctions}
       /\ v.fn = {fns[r.fn]} /\ v.admins = {ActiveAdmins}
  <2>1. /\ users[r.user] \in UserRow /\ members[r.user] \in WsRoles
        /\ conf.memberCanDeploy \in BOOLEAN /\ conf.allowUserFunctions \in BOOLEAN
        /\ fns[r.fn] \in FnRow \cup {None}
        BY <1>4 DEF IInv, TypeOK, Conf
  <2>2. ActiveAdmins \in SUBSET Users BY DEF ActiveAdmins
  <2> QED BY <2>1, <2>2 DEF View
<1>12. seen' = [seen EXCEPT ![c] = v] BY <1>2
<1> HIDE DEF v
<1>13. /\ seen' \in [Calls -> View] /\ seen'[c] = v /\ \A q \in Calls \ {c} : seen'[q] = seen[q]
       BY <1>11, <1>12 DEF IInv, TypeOK
<1>14. TypeOK' BY <1>1, <1>6, <1>7, <1>10, <1>13 DEF IInv, TypeOK, store, mcp
<1>15. \A q \in Calls : Underway(call'[q]) => Watched(call[q].req, seen[q])'
  <2> SUFFICES ASSUME NEW q \in Calls, Underway(call'[q]) PROVE Watched(call[q].req, seen[q])'
      OBVIOUS
  <2>1. CASE q = c
        BY <1>1, <1>7, <1>10, <1>11, <1>13, <2>1 DEF Watched, store, ActiveAdmins
  <2>2. CASE q # c
    <3>1. call'[q] = call[q] /\ seen'[q] = seen[q] BY <1>10, <1>13, <2>2
    <3>2. Watched(call[q].req, seen[q]) BY <3>1 DEF IInv, WatchInv
    <3> QED BY <1>1, <3>1, <3>2 DEF Watched, store, ActiveAdmins
  <2> QED BY <2>1, <2>2
<1>16. CallOf(k, v)
  <2>1. CASE pc = "auth"
    <3>1. PlaceAt(k, v, "auth") BY <1>3, <1>7 DEF PlaceAt, Acting, Permitted
    <3> QED BY <1>7, <2>1, <3>1 DEF CallOf
  <2>2. CASE pc = "done"
    <3>1. Reason(k.req, v, "off") BY DEF Reason
    <3> QED BY <1>3, <1>6, <1>7, <2>2, <3>1 DEF CallOf, Underway
  <2> QED BY <1>6, <2>1, <2>2
<1>17. RowOf(call, c)'
  <2>1. call'[c].pc \notin Resolved /\ call'[c].shown = {} BY <1>6, <1>7, <1>10 DEF Resolved
  <2> QED BY <2>1 DEF RowOf
<1>18. OutOf(call'[c]) BY <1>7, <1>10 DEF OutOf
<1>19. Lasting BY <1>1 DEF Lasting, store
<1>20. HomeInv'
  <2>1. ASSUME NEW x, NEW f, Home(call, x, f) PROVE Home(call', x, f)
        BY <1>1, <1>10, <2>1 DEF Home
  <2> QED BY <1>1, <2>1 DEF IInv, HomeInv, store
<1>21. \A q \in Calls \ {c} : Grows(seen[q], seen'[q]) BY <1>13 DEF Grows
<1> QED BY <1>1, <1>10, <1>13, <1>14, <1>15, <1>16, <1>17, <1>18, <1>19, <1>20, <1>21, StepKeeps

\* What a call made is all that is left of it.
LEMMA EndKeeps ==
    ASSUME IInv, NEW c \in Calls, End(c)
    PROVE  IInv'
<1> DEFINE r == IF call[c].req.op = "deploy" THEN call[c].req ELSE None
           k == [Idle EXCEPT !.pc = "over", !.req = r]
<1>1. /\ call[c].pc = "done" /\ UNCHANGED <<store, mcp, dash>>
      /\ call' = [call EXCEPT ![c] = k] /\ seen' = [seen EXCEPT ![c] = NoView]
      BY DEF End
<1>2. r \in Request \cup {None} BY <1>1 DEF IInv, CallInv, CallOf, Asks
<1>3. call[c].req.op = "deploy" => r = call[c].req OBVIOUS
<1> HIDE DEF r
<1>4. k.req = r /\ k.pc = "over" /\ k.ans = None /\ k.shown = {} /\ k.out = Unwritten
      BY DEF Idle, Unwritten
<1>5. Unwritten \in Output BY DEF Unwritten, Output
<1>6. k \in Call BY <1>2, <1>5 DEF Call, Idle, Places, Unwritten
<1> HIDE DEF k
<1>7. /\ call' \in [Calls -> Call] /\ call'[c] = k /\ \A q \in Calls \ {c} : call'[q] = call[q]
      BY <1>1, <1>6 DEF IInv, TypeOK
<1>8. NoView \in View BY DEF NoView, View
<1>9. seen' \in [Calls -> View] /\ \A q \in Calls \ {c} : seen'[q] = seen[q]
      BY <1>1, <1>8 DEF IInv, TypeOK
<1>10. TypeOK' BY <1>1, <1>4, <1>7, <1>9 DEF IInv, TypeOK, store, mcp
<1>11. \A q \in Calls : Underway(call'[q]) => Watched(call[q].req, seen[q])'
  <2> SUFFICES ASSUME NEW q \in Calls, Underway(call'[q]) PROVE Watched(call[q].req, seen[q])'
      OBVIOUS
  <2>1. q # c BY <1>4, <1>7 DEF Underway
  <2>2. call'[q] = call[q] /\ seen'[q] = seen[q] BY <1>7, <1>9, <2>1
  <2>3. Watched(call[q].req, seen[q]) BY <2>2 DEF IInv, WatchInv
  <2> QED BY <1>1, <2>2, <2>3 DEF Watched, store, ActiveAdmins
<1>12. CallOf(call'[c], seen'[c]) BY <1>4, <1>7 DEF CallOf, Underway
<1>13. RowOf(call, c)'
  <2>1. call'[c].pc \notin Resolved /\ call'[c].shown = {} BY <1>4, <1>7 DEF Resolved
  <2> QED BY <2>1 DEF RowOf
<1>14. OutOf(call'[c]) BY <1>4, <1>7 DEF OutOf
<1>15. Lasting BY <1>1 DEF Lasting, store
<1>16. call[c].req.op = "deploy" => call'[c].pc = "over" /\ call'[c].req = call[c].req
       BY <1>3, <1>4, <1>7
<1>17. HomeInv'
  <2>1. ASSUME NEW x, NEW f, Home(call, x, f) PROVE Home(call', x, f)
        BY <1>7, <1>16, <2>1 DEF Home
  <2> QED BY <1>1, <2>1 DEF IInv, HomeInv, store
<1>18. \A q \in Calls \ {c} : Grows(seen[q], seen'[q]) BY <1>9 DEF Grows
<1> QED BY <1>7, <1>10, <1>11, <1>12, <1>13, <1>14, <1>15, <1>16, <1>17, <1>18, StepKeeps

-----------------------------------------------------------------------------
(***************************************************************************)
(* The invariant, and what follows from it.                                *)
(***************************************************************************)

\* At first every function has its own versions and no call has begun.
LEMMA InitIInv == Init => IInv
<1> SUFFICES ASSUME Init PROVE IInv OBVIOUS
<1>1. PICK st \in Starts :
        /\ users = st.users /\ members = st.members /\ conf = st.conf
        /\ fns = [f \in Fns |-> [active |-> st.active[f], rows |-> {v \in Vers : VersionOf[v] = f}]]
      BY DEF Init
<1>2. /\ st.users \in [Users -> UserRow] /\ st.members \in [Users -> WsRoles] /\ st.conf \in Conf
      /\ st.active \in [Fns -> Vers] /\ \A f \in Fns : VersionOf[st.active[f]] = f
      BY RowsAssumption
<1>3. /\ changes = 0
      /\ servers = [s \in Servers |-> [st |-> "free", user |-> None, admin |-> FALSE]]
      /\ sessions = {} /\ dash = "none"
      /\ call = [c \in Calls |-> Idle] /\ seen = [c \in Calls |-> NoView]
      BY DEF Init
<1>4. MaxChanges \in Nat BY CapsAssumption
<1>5. Idle \in Call
  <2>1. Unwritten \in Output BY DEF Unwritten, Output
  <2> QED BY <2>1 DEF Idle, Call, Places, Unwritten
<1>6. NoView \in View BY DEF NoView, View
<1>7. \A f \in Fns : /\ fns[f] \in FnRow /\ fns[f].active \in fns[f].rows
                     /\ \A v \in fns[f].rows : v \in Vers /\ VersionOf[v] = f
      BY <1>1, <1>2 DEF FnRow
<1>8. fns \in [Fns -> FnRow \cup {None}] BY <1>1, <1>7
<1>9. Idle.pc = "idle" /\ Idle.ans = None /\ Idle.shown = {} /\ Idle.out = Unwritten
      BY DEF Idle, Unwritten
<1>10. TypeOK
  <2>1. call \in [Calls -> Call] /\ seen \in [Calls -> View] BY <1>3, <1>5, <1>6
  <2>2. \A c \in Calls : call[c].pc = "done" <=> call[c].ans # None BY <1>3, <1>9
  <2> QED BY <1>1, <1>2, <1>3, <1>4, <1>7, <1>8, <2>1, <2>2 DEF TypeOK
<1>11. \A c \in Calls : call[c] = Idle BY <1>3
<1>12. CallInv BY <1>9, <1>11 DEF CallInv, CallOf, Underway
<1>13. WatchInv BY <1>9, <1>11 DEF WatchInv, Underway
<1>14. RowInv BY <1>9, <1>11 DEF RowInv, RowOf, Resolved
<1>15. HomeInv BY <1>7 DEF HomeInv, Home
<1>16. OutInv BY <1>9, <1>11 DEF OutInv, OutOf
<1> QED BY <1>10, <1>12, <1>13, <1>14, <1>15, <1>16 DEF IInv

\* Every step of a call keeps the invariant,
LEMMA CallStepKeeps ==
    ASSUME IInv, NEW c \in Calls, CallStep(c)
    PROVE  IInv'
BY ServeRESTKeeps, ServeMCPKeeps, requireActorKeeps, ServeDashboardKeeps, internalAPIKeeps,
   ExpireKeeps, ResolveKeeps, ResolveVisibleKeeps, LoadWorkspaceKeeps, ManageKeeps, ShowKeeps,
   ShowFilesKeeps, DeployKeeps, ActKeeps, AuditKeeps, ListOfOwnerKeeps, ListByOwnerKeeps,
   ListFunctionsKeeps, ListUsersKeeps, PatchUserKeeps, CountAdminsKeeps, WriteUserKeeps,
   InvokeKeeps, GuestWritesKeeps, GuestEndsKeeps, EndKeeps
   DEF CallStep

\* and so does every other step.
LEMMA NextIInv == IInv /\ [Next]_vars => IInv'
<1> SUFFICES ASSUME IInv, [Next]_vars PROVE IInv' OBVIOUS
<1>1. CASE UNCHANGED vars
      BY <1>1 DEF IInv, TypeOK, CallInv, WatchInv, Watched, ActiveAdmins, RowInv, RowOf, ReadOf,
         HomeInv, OutInv, vars
<1>2. CASE Next
      BY <1>2, BeginKeeps, CallStepKeeps, SessionKeeps, ChangeKeeps DEF Next
<1> QED BY <1>1, <1>2

\* Hence it always holds.
LEMMA Inductive == Spec => []IInv
BY InitIInv, NextIInv, PTL DEF Spec

\* Everything is of its type, and a call has an answer exactly when it is done.
THEOREM TypeCorrect == Spec => []TypeOK
<1>1. IInv => TypeOK BY DEF IInv
<1> QED BY <1>1, Inductive, PTL

\* Places and answers that need leave have it.
LEMMA PermittedFollows == IInv => ActsArePermitted
<1> SUFFICES ASSUME IInv, NEW c \in Calls
             PROVE  /\ call[c].ans = "ok" \/ call[c].pc \in Permitted =>
                          Could(c, TRUE) /\ Opens(call[c].req)
                    /\ call[c].ans = "ok" /\ call[c].req.op \in Lists =>
                          \A f \in call[c].shown : Viewed(call[c].req, seen[c], f)
    BY DEF ActsArePermitted, Permitted, Viewed
<1>1. Could(c, TRUE) <=> Allowed(call[c].req, seen[c], TRUE) BY DEF Could, Allowed
<1>2. CASE call[c].ans = "ok"
  <2>1. call[c].pc = "done" BY <1>2, NoneAssumption DEF IInv, TypeOK, Answers
  <2>2. CallOf(call[c], seen[c]) BY DEF IInv, CallInv
  <2>3. Reason(call[c].req, seen[c], "ok") BY <1>2, <2>1, <2>2 DEF CallOf
  <2>4. Allowed(call[c].req, seen[c], TRUE) /\ Opens(call[c].req) BY <2>3 DEF Reason
  <2>5. call[c].req.op \in Lists => \A f \in call[c].shown : Viewed(call[c].req, seen[c], f)
        BY <1>2, <2>1, <2>2 DEF CallOf
  <2> QED BY <1>1, <2>4, <2>5
<1>3. CASE call[c].ans # "ok" /\ call[c].pc \in Permitted
  <2>1. Underway(call[c]) /\ call[c].pc \in Acting BY <1>3 DEF Underway, Permitted, Acting
  <2>2. Allowed(call[c].req, seen[c], TRUE) /\ Opens(call[c].req)
        BY <1>3, <2>1, UnderwayHas DEF PlaceAt, Known
  <2> QED BY <1>1, <1>3, <2>2
<1> QED BY <1>2, <1>3

\* Through REST, MCP and the dashboard alike, a call does or is told something only if
\* the caller could do it at some time during the call, active, and with a credential
\* for that door; and a list holds only what the caller could see.
THEOREM EveryActIsPermitted == Spec => []ActsArePermitted
BY PermittedFollows, Inductive, PTL

\* Who is told "forbidden" could see the function.
LEMMA OutsidersFollow == IInv => OutsidersLearnNothing
<1> SUFFICES ASSUME IInv, NEW c \in Calls, call[c].ans = "forbidden",
                    call[c].req.op \in FnOps \ {"setenv"}
             PROVE  \E row \in seen[c].rows, w \in seen[c].roles :
                        May([call[c].req EXCEPT !.op = "get"], row, w, FALSE, FALSE)
    BY DEF OutsidersLearnNothing
<1>1. call[c].pc = "done" BY NoneAssumption DEF IInv, TypeOK, Answers
<1>2. Reason(call[c].req, seen[c], "forbidden") /\ call[c].req \in Request
      BY <1>1 DEF IInv, CallInv, CallOf, Asks
<1>3. PICK row \in seen[c].rows, w \in seen[c].roles :
         May([call[c].req EXCEPT !.op = "get", !.fn = call[c].req.fn], row, w, FALSE, FALSE)
      BY <1>2 DEF Reason, Viewed
<1>4. [call[c].req EXCEPT !.op = "get", !.fn = call[c].req.fn] = [call[c].req EXCEPT !.op = "get"]
      BY <1>2 DEF Request
<1> QED BY <1>3, <1>4

\* To who could never see a function during a call, it does not exist: ResolveVisible
\* comes before CanManage, which alone says "forbidden".
THEOREM OutsidersNeverLearn == Spec => []OutsidersLearnNothing
BY OutsidersFollow, Inductive, PTL

\* As many sessions as the handler counts are open or being opened.
LEMMA CountedAreOpen ==
    ASSUME IInv, NEW u \in Users, Refuses(u)
    PROVE  LET Open(U) == {s \in Servers : servers[s].st \in {"opening", "live"}
                                           /\ servers[s].user \in U}
           IN  Cardinality(Open({u})) >= MaxPerUser \/ Cardinality(Open(Users)) >= MaxGlobal
<1> DEFINE Open(U) == {s \in Servers : servers[s].st \in {"opening", "live"}
                                       /\ servers[s].user \in U}
           kept == pruneClosedSessions
           own == {s \in kept : servers[s].user = u}
<1>1. kept \subseteq Open(Users) BY DEF pruneClosedSessions, IInv, TypeOK
<1>2. own \subseteq Open({u}) BY DEF pruneClosedSessions, IInv, TypeOK
<1>3. IsFiniteSet(Open(Users)) /\ IsFiniteSet(Open({u}))
  <2>1. Open(Users) \subseteq Servers /\ Open({u}) \subseteq Servers OBVIOUS
  <2> HIDE DEF Open
  <2> QED BY <2>1, CapsAssumption, FS_Subset
<1>4. Cardinality(kept) >= MaxGlobal \/ Cardinality(own) >= MaxPerUser BY DEF Refuses
<1>5. MaxGlobal \in Nat /\ MaxPerUser \in Nat BY CapsAssumption
<1> HIDE DEF Open, kept, own
<1>6. /\ IsFiniteSet(kept) /\ Cardinality(kept) <= Cardinality(Open(Users))
      /\ IsFiniteSet(own) /\ Cardinality(own) <= Cardinality(Open({u}))
      BY <1>1, <1>2, <1>3, FS_Subset
<1>7. /\ Cardinality(kept) \in Nat /\ Cardinality(Open(Users)) \in Nat
      /\ Cardinality(own) \in Nat /\ Cardinality(Open({u})) \in Nat
      BY <1>3, <1>6, FS_CardinalityType
<1>8. Cardinality(Open({u})) >= MaxPerUser \/ Cardinality(Open(Users)) >= MaxGlobal
      BY <1>4, <1>5, <1>6, <1>7
<1> QED BY <1>8 DEF Open

\* Answers have their reasons.
LEMMA RefusalsFollow == IInv => RefusalsAreDue
<1> SUFFICES ASSUME IInv PROVE RefusalsAreDue OBVIOUS
<1>1. ASSUME NEW c \in Calls
      PROVE  LET r == call[c].req IN
             CASE call[c].ans = "forbidden" -> Could(c, FALSE)
               [] call[c].ans = "notFound"  ->
                     \/ Could(c, FALSE)
                     \/ \E f \in seen[c].fn : f = None \/ (r.ver # None /\ r.ver \notin f.rows)
               [] call[c].ans = "pending"   -> \E row \in seen[c].rows : row.status = "pending"
               [] call[c].ans = "unauthorized" ->
                     \/ ~Opens(r)
                     \/ \E row \in seen[c].rows : row.status # "active"
               [] call[c].ans = "conflict" ->
                     IF r.op = "patch" THEN \E A \in seen[c].admins : A \subseteq {r.target}
                     ELSE None \in seen[c].fn
               [] OTHER -> TRUE
  <2>1. Could(c, FALSE) <=> Allowed(call[c].req, seen[c], FALSE) BY DEF Could, Allowed
  <2>2. CASE call[c].ans = None BY <2>2, NoneAssumption DEF Answers
  <2>3. CASE call[c].ans # None
    <3>1. call[c].pc = "done" BY <2>3 DEF IInv, TypeOK
    <3>2. Reason(call[c].req, seen[c], call[c].ans) BY <3>1 DEF IInv, CallInv, CallOf
    <3> QED BY <2>1, <3>2 DEF Reason
  <2> QED BY <2>2, <2>3
<1>2. \A u \in Users : Refuses(u) =>
         LET Open(U) == {s \in Servers : servers[s].st \in {"opening", "live"}
                                         /\ servers[s].user \in U}
         IN  Cardinality(Open({u})) >= MaxPerUser \/ Cardinality(Open(Users)) >= MaxGlobal
      BY CountedAreOpen
<1> QED BY <1>1, <1>2 DEF RefusalsAreDue

\* What every refusal says was so at some time during the call, and a session of MCP
\* is refused only when as many as a limit are open or being opened.
THEOREM EveryRefusalIsDue == Spec => []RefusalsAreDue
BY RefusalsFollow, Inductive, PTL

\* Only WriteUser changes users.
LEMMA UsersChange ==
    ASSUME [Next]_vars
    PROVE  users' = users \/ \E c \in Calls : WriteUser(c)
<1>1. ASSUME NEW c \in Calls, CallStep(c) PROVE users' = users \/ WriteUser(c)
      BY <1>1 DEF CallStep, ServeREST, ServeMCP, requireActor, ServeDashboard, internalAPI, Expire,
         Resolve, ResolveForEnv, ResolveVisible, LoadWorkspace, Manage, ShowFunction, ShowLogs,
         ShowFiles, Deploy, Act, Audit, ListOfOwner, ListByOwner, ListFunctions, ListUsers,
         ListAuditLogs, PatchUser, CountAdmins, Invoke, GuestWrites, GuestEnds, End, store
<1>2. ASSUME NEW c \in Calls, Begin(c) PROVE users' = users BY <1>2 DEF Begin, store
<1>3. ASSUME NEW s \in Servers, Connect(s) \/ Close(s) \/ \E u \in Users : getServer(s, u)
      PROVE  users' = users
      BY <1>3 DEF Connect, Close, getServer, store
<1>4. Change => users' = users BY DEF Change
<1>5. UNCHANGED vars => users' = users BY DEF vars
<1> QED BY <1>1, <1>2, <1>3, <1>4, <1>5 DEF Next

\* The user that is written was found to be no active admin, or not the only one.
LEMMA LastAdminFollows ==
    ASSUME IInv, [Next]_vars, ActiveAdmins # {}, ActiveAdmins' = {}
    PROVE  \E c \in Calls :
              /\ call[c].pc = "write" /\ call'[c].pc = "audit"
              /\ \E A \in seen[c].admins : A # {call[c].req.target}
<1>1. users' # users BY DEF ActiveAdmins
<1>2. PICK c \in Calls : WriteUser(c) BY <1>1, UsersChange
<1> DEFINE r == call[c].req
<1>3. call[c].pc = "write" /\ users' = [users EXCEPT ![r.target] = Patched(c)] BY <1>2 DEF WriteUser
<1>4. Underway(call[c]) BY <1>3 DEF Underway
<1>5. PlaceAt(call[c], seen[c], "write") /\ r.target \in Users BY <1>3, <1>4, UnderwayHas
<1>6. call'[c].pc = "audit"
  <2>1. PICK k \in Call : call' = [call EXCEPT ![c] = k] /\ k.pc = "audit" BY <1>2, WriteUserMoves
  <2> QED BY <2>1 DEF IInv, TypeOK
<1>7. ~Stays(call[c])
  <2> SUFFICES ASSUME Stays(call[c]) PROVE FALSE OBVIOUS
  <2>1. call[c].row.role = "admin" /\ call[c].row.status = "active" BY DEF Stays, ActiveAdmin
  <2>2. Patched(c) = [role |-> "admin", status |-> "active"] BY <2>1 DEF Stays, Patched
  <2>3. users'[r.target] = [role |-> "admin", status |-> "active"]
        BY <1>3, <1>5, <2>2 DEF IInv, TypeOK
  <2> QED BY <1>5, <2>3 DEF ActiveAdmins
<1>8. NotAlone(r, seen[c]) BY <1>5, <1>7 DEF PlaceAt
<1> QED BY <1>3, <1>6, <1>8 DEF NotAlone

\* When a change of a user leaves the organization without an active administrator,
\* that user was not the only one all the while PatchUser read, counted and wrote.
THEOREM LastAdminOnlyInARace == Spec => LastAdminStays
<1>1. IInv /\ [Next]_vars =>
        [ActiveAdmins # {} /\ ActiveAdmins' = {} =>
            \E c \in Calls :
                /\ call[c].pc = "write" /\ call'[c].pc = "audit"
                /\ \E A \in seen[c].admins : A # {call[c].req.target}]_vars
      BY LastAdminFollows
<1> QED BY <1>1, Inductive, PTL DEF Spec, LastAdminStays

\* What the fold over the sizes of a version's files says stays within the budget, and
\* is called cut exactly when something is missing.
FilesFit ==
    \A v \in Vers :
        LET o == Listing(FileSizes[v]) IN o.kept <= Budget /\ (o.cut <=> o.kept # o.total)

\* Versions are at home, and output is as it was recorded.
LEMMA AnswersFollow == FilesFit /\ IInv => AnswersAreTrue
<1> SUFFICES ASSUME FilesFit, IInv PROVE AnswersAreTrue OBVIOUS
<1> DEFINE Of(v) == IF v \in Vers THEN VersionOf[v] ELSE call[v].req.fn
<1>1. ASSUME NEW v, NEW f, Home(call, v, f) PROVE Of(v) = f
      BY <1>1, RowsAssumption DEF Home
<1>2. ASSUME NEW f \in Fns, fns[f] # None PROVE Of(fns[f].active) = f
  <2>1. Home(call, fns[f].active, f) BY <1>2 DEF IInv, TypeOK, HomeInv
  <2> QED BY <1>1, <2>1
<1>3. ASSUME NEW c \in Calls, call[c].ans = "ok", call[c].req.op \in {"get", "files"},
             NEW v \in call[c].shown
      PROVE  Of(v) = call[c].req.fn
  <2>1. call[c].pc = "done" BY <1>3, NoneAssumption DEF IInv, TypeOK, Answers
  <2>2. Home(call, v, call[c].req.fn) BY <1>3, <2>1 DEF IInv, RowInv, RowOf
  <2> QED BY <1>1, <2>2
<1>4. ASSUME NEW c \in Calls
      PROVE  /\ IF call[c].req # None /\ call[c].req.op = "files"
                THEN \/ call[c].out.kept <= Budget
                     \/ \E v \in Vers : call[c].out \in
                                        Returned(FileSizes[v]) \ {Listing(FileSizes[v])}
                ELSE call[c].out.kept <= BodyCap
             /\ call[c].out.cut <=> call[c].out.kept # call[c].out.total
  <2>1. Budget \in Nat /\ BodyCap \in Nat BY CapsAssumption
  <2>2. CASE call[c].out = Unwritten BY <2>1, <2>2 DEF Unwritten
  <2>3. CASE /\ call[c].pc = "done" /\ call[c].req.op = "files"
             /\ call[c].out \in UNION {Returned(FileSizes[v]) : v \in Vers}
    <3>1. call[c].req # None
          BY <2>3, NoneAssumption DEF IInv, CallInv, CallOf, Asks
    <3>2. PICK v \in Vers : call[c].out \in Returned(FileSizes[v]) BY <2>3
    <3>3. CASE call[c].out = Listing(FileSizes[v]) BY <2>3, <3>1, <3>3 DEF FilesFit
    <3>4. CASE call[c].out # Listing(FileSizes[v])
      <4>1. PICK i \in DOMAIN FileSizes[v] : call[c].out = OneFile(FileSizes[v][i])
            BY <3>2, <3>4 DEF Returned
      <4>2. ~call[c].out.cut /\ call[c].out.kept = call[c].out.total BY <4>1 DEF OneFile
      <4> QED BY <2>3, <3>1, <3>2, <3>4, <4>2
    <3> QED BY <3>3, <3>4
  <2>4. CASE /\ call[c].req.op = "invoke" /\ call[c].out \in Written
             /\ call[c].out.kept =
                   IF call[c].out.total > BodyCap THEN BodyCap ELSE call[c].out.total
             /\ call[c].out.cut <=> call[c].out.total > BodyCap
    <3>1. call[c].out.kept \in Nat /\ call[c].out.total \in Nat BY <2>4 DEF Written
    <3> QED BY <2>1, <2>4, <3>1
  <2> QED BY <2>2, <2>3, <2>4 DEF IInv, OutInv, OutOf
<1> QED BY <1>2, <1>3, <1>4 DEF AnswersAreTrue

\* A function runs, and shows, versions of its own only, and what a tool returns stays
\* within its cap and is called cut exactly when it is: boundedInvokeRecorder for any
\* writes, get_function_files given what its loop computes for each version, but for a
\* file that was asked for by its path.
THEOREM EveryAnswerIsTrue == FilesFit => (Spec => []AnswersAreTrue)
<1>1. FilesFit /\ IInv => AnswersAreTrue BY AnswersFollow
<1>2. ASSUME FilesFit PROVE IInv => AnswersAreTrue BY <1>1, <1>2
<1>3. ASSUME FilesFit PROVE Spec => []AnswersAreTrue BY <1>2, <1>3, Inductive, PTL
<1> QED BY <1>3

=============================================================================
