-------------------------- MODULE InvocationProofs --------------------------
(***************************************************************************)
(* Machine-checked proofs about Invocation, for any sets of requests,      *)
(* connections, users, versions and settings, and any bounds.              *)
(***************************************************************************)
EXTENDS Invocation, TLAPS

(***************************************************************************)
(* The inductive invariant, in parts.                                      *)
(***************************************************************************)

\* Where a request is a version's, and where its caller is not known yet.
Versioned == {"version", "org", "workspace", "caller", "login", "member", "expose", "handler",
              "build", "wait", "begin"} \cup Runs
Anonymous == {"new", "resolve", "version", "org", "workspace", "caller", "login"}

\* The path and the host of a request that leads to a guest.
PathIsAGuests(r) ==
    IF deploy.hosts /\ shape[r].host = "function" THEN shape[r].path \notin {"callback", "funcbox"}
    ELSE shape[r].path = "guest" /\ (deploy.hosts => shape[r].host = "control")

\* What a request under way has got.
UnderWay(r) ==
    /\ pc[r] = "new" => conn[r] = None
    /\ pc[r] # "new" => conn[r] \in Conns /\ shape[r] \in Shape
    /\ pc[r] \in Versioned => ver[r] \in Vers
    /\ pc[r] \in {"workspace", "caller", "login", "member"} => vis[r] \in Visibilities
    /\ pc[r] \notin {"new", "done"} => PathIsAGuests(r)
    /\ pc[r] # "done" => sent[r] \notin {401, 403}

RequestInv == \A r \in Reqs : UnderWay(r)

\* A connection serves one request at a time, and captures for it.
CaptureInv ==
    /\ \A q, r \in Reqs : q # r /\ conn[q] = conn[r] /\ conn[q] # None
                          => pc[q] = "done" \/ pc[r] = "done"
    /\ \A c \in Conns : byConn[c] # None => conn[byConn[c]] = c /\ pc[byConn[c]] \in Runs

\* The caller is known only where the function is not open to all, and only
\* such a caller is shown.
CallerInv ==
    \A r \in Reqs :
        /\ pc[r] \in Anonymous => caller[r] = None
        /\ pc[r] \in Anonymous \cup {"member", "expose", "handler", "build", "wait", "begin"} => seen[r] = {}
        /\ caller[r] # None => vis[r] # "public"
        /\ seen[r] # {} => seen[r] = {caller[r]} /\ caller[r] # None /\ shown[r]

\* An instance of a pool is one request's at a time, which knows those that had
\* it before; nothing is printed for a request without one.
InstanceInv ==
    /\ \A r \in Reqs :
          /\ pc[r] \notin Runs \cup {"done"} => inst[r] = None /\ out[r] = {}
          /\ pc[r] \in Holding => inst[r] # None
          /\ \A q \in past[r] : pc[q] \in {"after", "done"}
    /\ \A q, r \in Reqs :
          q # r /\ pc[r] \in Holding /\ served[q] = served[r] /\ inst[q] = inst[r]
          => pc[q] \notin Holding /\ (pc[q] \in {"after", "done"} => q \in past[r])
    /\ OutputStaysOnInstance

\* Where a response has been started, and where it still is.
Started == {"stream", "write", "after"}

\* A response writer remembers what the client was sent.
WriterInv ==
    /\ \A r \in Reqs :
          /\ pc[r] \notin Started \cup {"done"} => iw[r] = NoWriter
          /\ pc[r] # "done" => logged[r] = None
          /\ iw[r].wrote => iw[r].status # 0
          /\ pc[r] \in Started => iw[r].wrote /\ sent[r] = finalStatus(r)
    /\ LogMatchesAnswer

\* The declared visibility, and those that limit it.
Declared(r) == IF ManifestVis[ver[r]] = None THEN org.default ELSE ManifestVis[ver[r]]
Limits(r) == {Declared(r), org.max} \cup (IF deploy.workspace /\ wsMax # None THEN {wsMax} ELSE {})

\* v is the least of S.
Least(v, S) == v \in S /\ \A w \in S : Level(v) <= Level(w)

Admitted == {"expose", "handler", "build", "wait", "begin"} \cup Runs

\* How far the decision about a request is, as long as nothing has changed.
Decided(r) ==
    /\ pc[r] = "workspace" => deploy.workspace /\ Least(vis[r], {Declared(r), org.max})
    /\ pc[r] \in {"caller", "member"} => Least(vis[r], Limits(r))
    /\ pc[r] = "member" =>
          /\ vis[r] # "public" /\ caller[r] = shape[r].user
          /\ Presents(r) /\ status[shape[r].user] = "active"
    /\ pc[r] \in Admitted => MayCall(r)
    /\ pc[r] = "done" /\ sent[r] \in {401, 403} => ~MayCall(r)

DecisionInv == \A r \in calm : Decided(r)

IInv ==
    /\ TypeOK
    /\ RequestInv
    /\ CaptureInv
    /\ CallerInv
    /\ InstanceInv
    /\ WriterInv
    /\ DecisionInv

-----------------------------------------------------------------------------
(***************************************************************************)
(* Lemmas about the model's operators.                                     *)
(***************************************************************************)

\* MinVisibility of two visibilities is the lesser one.
LEMMA MinIsLeast ==
    ASSUME NEW a \in Visibilities, NEW b \in Visibilities
    PROVE  Least(MinVisibility({a, b}), {a, b})
<1>1. \E v \in {a, b} : \A w \in {a, b} : Level(v) <= Level(w)
  BY DEF Visibilities, Level
<1> QED BY <1>1 DEF MinVisibility, Least

\* The settings a request is decided by are visibilities.
LEMMA LimitTypes ==
    ASSUME TypeOK, NEW r \in Reqs, ver[r] \in Vers
    PROVE  /\ Declared(r) \in Visibilities /\ org.max \in Visibilities
           /\ wsMax # None => wsMax \in Visibilities
           /\ Limits(r) \subseteq Visibilities
<1>1. org \in OrgRow /\ wsMax \in Visibilities \cup {None}
  BY SettingsAssumption DEF TypeOK
<1>2. ManifestVis[ver[r]] \in Visibilities \cup {None}
  BY SettingsAssumption
<1> QED BY <1>1, <1>2 DEF OrgRow, Declared, Limits

\* The three visibilities say who may call, once the least has been found.
LEMMA LeastDecides ==
    ASSUME TypeOK, NEW r \in Reqs, ver[r] \in Vers, Least(vis[r], Limits(r))
    PROVE  MayCall(r) <=>
              \/ vis[r] = "public"
              \/ /\ Presents(r) /\ status[shape[r].user] = "active"
                 /\ vis[r] # "workspace" \/ Belongs(shape[r].user)
<1>1. Limits(r) \subseteq Visibilities /\ vis[r] \in Limits(r)
  BY LimitTypes DEF Least
<1> DEFINE limits == {Level(v) : v \in Limits(r)}
<1>2. limits = {Level(Declared(r)), Level(org.max)}
                  \cup (IF deploy.workspace /\ wsMax # None THEN {Level(wsMax)} ELSE {})
  BY DEF Limits
<1>3. \A n \in 0..2 : (\A k \in limits : k >= n) <=> Level(vis[r]) >= n
  <2>1. \A v \in Visibilities : Level(v) \in 0..2
    BY DEF Visibilities, Level
  <2> QED BY <1>1, <2>1 DEF Least
<1>4. /\ Level(vis[r]) >= 2 <=> vis[r] = "public"
      /\ Level(vis[r]) >= 1 <=> vis[r] # "workspace"
  BY <1>1 DEF Visibilities, Level
<1>5. MayCall(r) <=> \/ \A k \in limits : k >= 2
                     \/ /\ Presents(r) /\ status[shape[r].user] = "active"
                        /\ (\A k \in limits : k >= 1) \/ Belongs(shape[r].user)
  BY <1>2 DEF MayCall, Declared
<1> QED BY <1>3, <1>4, <1>5

\* Who may call depends on the store, the version and the request.
LEMMA MayCallStays ==
    ASSUME NEW r, UNCHANGED <<deploy, org, wsMax, members, status>>,
           ver'[r] = ver[r], shape'[r] = shape[r]
    PROVE  MayCall(r)' <=> MayCall(r)
BY DEF MayCall, Presents, Belongs

\* A step for one request leaves the decision about the others where it is.
LEMMA OthersStayDecided ==
    ASSUME IInv, NEW r \in Reqs, UNCHANGED <<deploy, org, wsMax, members, status>>,
           calm' \subseteq calm \cup {r}, r \in calm' => Decided(r)',
           \A q \in Reqs \ {r} : /\ pc'[q] = pc[q] /\ ver'[q] = ver[q] /\ vis'[q] = vis[q]
                                 /\ caller'[q] = caller[q] /\ shape'[q] = shape[q] /\ sent'[q] = sent[q]
    PROVE  DecisionInv'
<1> SUFFICES ASSUME NEW q \in calm', q # r PROVE Decided(q)'
  BY DEF DecisionInv
<1>1. q \in calm /\ q \in Reqs /\ Decided(q)
  BY DEF IInv, TypeOK, DecisionInv
<1>2. MayCall(q)' <=> MayCall(q)
  BY <1>1, MayCallStays
<1> QED BY <1>1, <1>2 DEF Decided, Least, Declared, Limits, Presents

\* An admitted request goes on, or is answered, as admitted.
LEMMA AdmittedGoesOn ==
    ASSUME IInv, NEW r \in Reqs, pc[r] \in Admitted, UNCHANGED <<deploy, org, wsMax, members,
           status, ver, vis,
           caller, shape, calm>>,
           pc'[r] \in Admitted \cup {"done"}, pc'[r] = "done" => sent'[r] \notin {401, 403},
           \A q \in Reqs \ {r} : pc'[q] = pc[q] /\ sent'[q] = sent[q]
    PROVE  DecisionInv'
<1>1. r \in calm => Decided(r)'
  BY MayCallStays DEF IInv, DecisionInv, Decided, Admitted, Runs, Holding
<1> QED BY <1>1, OthersStayDecided

\* The captures stay right as long as a request keeps its connection and, once
\* it captures, runs.
LEMMA CapturesStay ==
    ASSUME IInv, NEW r \in Reqs, UNCHANGED <<conn, byConn>>,
           pc[r] # "done", pc[r] \in Runs => pc'[r] \in Runs,
           \A q \in Reqs \ {r} : pc'[q] = pc[q]
    PROVE  CaptureInv'
<1>1. \A q, s \in Reqs : q # s /\ conn[q] = conn[s] /\ conn[q] # None => pc'[q] = "done" \/ pc'[s] = "done"
  BY DEF IInv, CaptureInv
<1>2. \A c \in Conns : byConn[c] # None => conn[byConn[c]] = c /\ pc'[byConn[c]] \in Runs
  BY DEF IInv, TypeOK, CaptureInv
<1> QED BY <1>1, <1>2 DEF CaptureInv

\* What is so as long as a request has neither an instance nor a response.
LEMMA BeforeTheGuest ==
    ASSUME IInv, NEW r \in Reqs, UNCHANGED <<inst, past, out, iw, logged>>,
           pc[r] \notin Runs \cup {"done"}, pc'[r] \notin Runs,
           \A q \in Reqs \ {r} : pc'[q] = pc[q] /\ served'[q] = served[q] /\ sent'[q] = sent[q]
    PROVE  InstanceInv' /\ WriterInv'
<1>1. InstanceInv'
  <2>1. inst[r] = None /\ out[r] = {} /\ \A q \in Reqs : r \notin past[q] /\ r \notin out[q] \ {q}
    BY DEF IInv, InstanceInv, OutputStaysOnInstance, Runs
  <2>2. ASSUME NEW q \in Reqs
        PROVE  /\ pc'[q] \notin Runs \cup {"done"} => inst[q] = None /\ out[q] = {}
               /\ pc'[q] \in Holding => inst[q] # None
               /\ \A p \in past[q] : pc'[p] \in {"after", "done"}
    BY <2>1, <2>2 DEF IInv, TypeOK, InstanceInv, Runs
  <2>3. ASSUME NEW p \in Reqs, NEW q \in Reqs, p # q, pc'[q] \in Holding,
               served'[p] = served'[q], inst[p] = inst[q]
        PROVE  pc'[p] \notin Holding /\ (pc'[p] \in {"after", "done"} => p \in past[q])
    <3>1. q # r /\ pc[q] \in Holding /\ inst[q] # None
      BY <2>3 DEF IInv, InstanceInv, Runs
    <3>2. p # r
      BY <2>1, <2>3, <3>1
    <3> QED BY <2>3, <3>1, <3>2 DEF IInv, InstanceInv
  <2>4. OutputStaysOnInstance'
    BY <2>1 DEF IInv, TypeOK, InstanceInv, OutputStaysOnInstance
  <2> QED BY <2>2, <2>3, <2>4 DEF InstanceInv
<1>2. WriterInv'
  BY DEF IInv, WriterInv, LogMatchesAnswer, Started, Runs, Holding, finalStatus
<1> QED BY <1>1, <1>2

\* A request that goes on with its instance, or gives it back, changes nothing
\* that others know of theirs.
LEMMA OnTheInstance ==
    ASSUME IInv, NEW r \in Reqs, UNCHANGED <<served, inst, past, out>>,
           pc[r] \in Runs, pc'[r] \in Runs \cup {"done"}, pc'[r] \in Holding => pc[r] \in Holding,
           \A q \in Reqs \ {r} : pc'[q] = pc[q]
    PROVE  InstanceInv'
<1>1. ASSUME NEW q \in Reqs
      PROVE  /\ pc'[q] \notin Runs \cup {"done"} => inst[q] = None /\ out[q] = {}
             /\ pc'[q] \in Holding => inst[q] # None
  BY <1>1 DEF IInv, InstanceInv
<1>2. ASSUME NEW q \in Reqs, NEW p \in past[q]
      PROVE  pc'[p] \in {"after", "done"}
  <2>1. p \in Reqs /\ pc[p] \in {"after", "done"}
    BY <1>2 DEF IInv, TypeOK, InstanceInv
  <2> QED BY <2>1 DEF Runs, Holding
<1>3. ASSUME NEW p \in Reqs, NEW q \in Reqs, p # q, pc'[q] \in Holding, served[p] = served[q],
             inst[p] = inst[q]
      PROVE  pc'[p] \notin Holding /\ (pc'[p] \in {"after", "done"} => p \in past[q])
  <2>1. pc[q] \in Holding
    BY <1>3
  <2>2. pc[p] \notin Holding /\ (pc[p] \in {"after", "done"} => p \in past[q])
    BY <1>3, <2>1 DEF IInv, InstanceInv
  <2> QED BY <2>2 DEF Runs, Holding
<1>4. OutputStaysOnInstance'
  BY DEF IInv, InstanceInv, OutputStaysOnInstance
<1> QED BY <1>1, <1>2, <1>3, <1>4 DEF InstanceInv

\* A started response gets its writer, and what it sends.
LEMMA StartedWriter ==
    ASSUME IInv, NEW r \in Reqs, NEW code \in {200, 413, 500, 503}, NEW oom \in BOOLEAN,
           NEW length \in BOOLEAN,
           WriteHeader(r, code, oom, length), UNCHANGED logged,
           pc[r] # "done", pc'[r] \in Started, \A q \in Reqs \ {r} : pc'[q] = pc[q]
    PROVE  WriterInv' /\ iw' \in [Reqs -> Writer] /\ sent' \in [Reqs -> Codes \cup {None}] /\ sent'[r] \notin {401, 403}
<1>1. /\ iw'[r] = [wrote |-> TRUE, swapped |-> code = 500 /\ r \in expired, status |-> code, oom |-> oom,
                   length |-> length]
      /\ sent'[r] = IF code = 500 /\ r \in expired THEN 504 ELSE code
      /\ iw' \in [Reqs -> Writer] /\ sent' \in [Reqs -> Codes \cup {None}]
  BY DEF IInv, TypeOK, WriteHeader, Writer, Codes
<1>2. ASSUME NEW q \in Reqs, q # r PROVE iw'[q] = iw[q] /\ sent'[q] = sent[q]
  BY <1>2 DEF IInv, TypeOK, WriteHeader
<1>3. finalStatus(r)' = sent'[r]
  BY <1>1 DEF finalStatus, Writer
<1>4. ASSUME NEW q \in Reqs
      PROVE  /\ pc'[q] \notin Started \cup {"done"} => iw'[q] = NoWriter
             /\ pc'[q] # "done" => logged[q] = None
             /\ iw'[q].wrote => iw'[q].status # 0
             /\ pc'[q] \in Started => iw'[q].wrote /\ sent'[q] = finalStatus(q)'
             /\ logged[q] # None => logged[q] = sent'[q]
  <2>1. CASE q = r
    BY <1>1, <1>3, <2>1 DEF IInv, WriterInv
  <2>2. CASE q # r
    BY <1>2, <2>2 DEF IInv, WriterInv, LogMatchesAnswer, finalStatus
  <2> QED BY <2>1, <2>2
<1> QED BY <1>1, <1>4 DEF WriterInv, LogMatchesAnswer

\* The part of the types that an answer touches.
AnswerIsTyped ==
    /\ sent \in [Reqs -> Codes \cup {None}] /\ logged \in [Reqs -> Codes \cup {None}]
    /\ ended \in [Reqs -> {"clean", "cut", None}] /\ pc \in [Reqs -> PCs]

\* An answer has its type.
LEMMA AnswerTypes ==
    ASSUME TypeOK, NEW r \in Reqs, NEW code \in Codes, Answer(r, code)
    PROVE  AnswerIsTyped'
BY DEF TypeOK, Answer, Goto, PCs, AnswerIsTyped

\* Where a request that the router hands to the invoker has come from.
LEMMA RouteToGuest ==
    ASSUME NEW s \in Shape, Route(s) = "invoke"
    PROVE  IF deploy.hosts /\ s.host = "function" THEN s.path \notin {"callback", "funcbox"}
           ELSE s.path = "guest" /\ (deploy.hosts => s.host = "control")
<1>1. Control(s) = "invoke" => s.path = "guest"
  BY DEF Control, Reserved
<1>2. CASE ~deploy.hosts
  BY <1>1, <1>2 DEF Route
<1>3. CASE deploy.hosts
  <2>1. ByHost(s) = "invoke"
    BY <1>3 DEF Route
  <2>2. CASE s.host = "control"
    <3>1. ByHost(s) = Control(s)
      BY <2>2 DEF ByHost
    <3> QED BY <1>1, <2>1, <2>2, <3>1
  <2>3. CASE s.host = "function"
    BY <1>3, <2>1, <2>3 DEF ByHost
  <2>4. CASE s.host \in {"alias", "landing", "other"}
    BY <2>1, <2>4 DEF ByHost
  <2> QED BY <2>2, <2>3, <2>4 DEF Shape
<1> QED BY <1>2, <1>3

\* resolveVisibility takes the lesser of what is declared and what the
\* organization allows, ...
LEMMA OrgVisibility ==
    ASSUME IInv, NEW r \in Reqs, ReadOrg(r)
    PROVE  vis'[r] \in Visibilities /\ Least(vis'[r], {Declared(r), org.max})
<1>1. ver[r] \in Vers /\ vis'[r] = MinVisibility({Declared(r), org.max})
  BY DEF IInv, TypeOK, RequestInv, UnderWay, Versioned, ReadOrg, Declared, Runs, Holding
<1>2. Declared(r) \in Visibilities /\ org.max \in Visibilities
  BY <1>1, LimitTypes DEF IInv
<1>3. Least(MinVisibility({Declared(r), org.max}), {Declared(r), org.max})
  BY <1>2, MinIsLeast
<1> QED BY <1>1, <1>2, <1>3 DEF Least

\* ... and of that and what the workspace allows.
LEMMA WorkspaceVisibility ==
    ASSUME IInv, NEW r \in Reqs, ReadWorkspace(r)
    PROVE  /\ vis'[r] \in Visibilities
           /\ wsMax = None => vis'[r] = vis[r]
           /\ wsMax # None => Least(vis'[r], {vis[r], wsMax})
<1>1. vis[r] \in Visibilities
  BY DEF IInv, RequestInv, UnderWay, ReadWorkspace
<1>2. vis'[r] = IF wsMax = None THEN vis[r] ELSE MinVisibility({vis[r], wsMax})
  BY DEF IInv, TypeOK, ReadWorkspace
<1>3. ASSUME wsMax # None
      PROVE  wsMax \in Visibilities /\ Least(MinVisibility({vis[r], wsMax}), {vis[r], wsMax})
  <2>1. wsMax \in Visibilities
    BY <1>3, SettingsAssumption DEF IInv, TypeOK
  <2> QED BY <1>1, <2>1, MinIsLeast
<1> QED BY <1>1, <1>2, <1>3 DEF Least

-----------------------------------------------------------------------------
(***************************************************************************)
(* Every action keeps the invariant.                                       *)
(***************************************************************************)

\* Resolve gives the request a version, or answers it.
LEMMA ResolveKeeps == ASSUME IInv, NEW r \in Reqs, Resolve(r) PROVE IInv'
<1> USE CallerAssumption, ShapesAssumption, SettingsAssumption DEF Resolve, Goto, world, pools,
     answer,
     who, input, guest, instance
<1>0. /\ pc[r] \notin Runs \cup {"done"} /\ pc'[r] \notin Runs /\ logged' = logged
      /\ \A q \in Reqs \ {r} : pc'[q] = pc[q] /\ sent'[q] = sent[q]
  BY DEF IInv, TypeOK, Runs, Holding, Answer
<1>1. TypeOK'
  <2>1. AnswerIsTyped'
    <3>1. ASSUME NEW code \in {404, 413}, Answer(r, code) PROVE AnswerIsTyped'
      BY <3>1, AnswerTypes DEF IInv, Codes
    <3>2. CASE pc' = [pc EXCEPT ![r] = "version"] /\ UNCHANGED <<sent, ended, logged>>
      BY <3>2 DEF AnswerIsTyped, IInv, TypeOK, PCs
    <3> QED BY <3>1, <3>2
  <2> QED BY <2>1 DEF AnswerIsTyped, IInv, TypeOK
<1>2. RequestInv'
  BY DEF IInv, TypeOK, RequestInv, UnderWay, Versioned, PathIsAGuests, Answer, Runs, Holding
<1>3. CaptureInv'
  BY <1>0, CapturesStay
<1>4. CallerInv'
  BY DEF IInv, TypeOK, CallerInv, Anonymous, RequestInv, UnderWay, Answer
<1>5. InstanceInv' /\ WriterInv'
  BY <1>0, BeforeTheGuest
<1>6. DecisionInv'
  <2>1. pc'[r] \in {"version", "done"} /\ (pc'[r] = "done" => sent'[r] \in {404, 413})
    BY DEF Answer, IInv, TypeOK
  <2>2. Decided(r)'
    BY <2>1 DEF Decided, Admitted, Runs, Holding
  <2> QED BY <2>2, OthersStayDecided DEF Answer, IInv, TypeOK
<1> QED BY <1>1, <1>2, <1>3, <1>4, <1>5, <1>6 DEF IInv

\* The version's row is there, or the request is answered.
LEMMA LoadVersionKeeps == ASSUME IInv, NEW r \in Reqs, LoadVersion(r) PROVE IInv'
<1> USE CallerAssumption, ShapesAssumption, SettingsAssumption DEF LoadVersion, Goto, world,
     pools,
     answer, who, input, guest, instance
<1>0. /\ pc[r] \notin Runs \cup {"done"} /\ pc'[r] \notin Runs /\ logged' = logged
      /\ \A q \in Reqs \ {r} : pc'[q] = pc[q] /\ sent'[q] = sent[q]
  BY DEF IInv, TypeOK, Runs, Holding, Answer
<1>1. TypeOK'
  <2>1. AnswerIsTyped'
    BY AnswerTypes DEF AnswerIsTyped, IInv, TypeOK, PCs, Codes
  <2> QED BY <2>1 DEF AnswerIsTyped, IInv, TypeOK
<1>2. RequestInv'
  BY DEF IInv, TypeOK, RequestInv, UnderWay, Versioned, PathIsAGuests, Answer, Runs, Holding
<1>3. CaptureInv'
  BY <1>0, CapturesStay
<1>4. CallerInv'
  BY DEF IInv, TypeOK, CallerInv, Anonymous, RequestInv, UnderWay, Answer
<1>5. InstanceInv' /\ WriterInv'
  BY <1>0, BeforeTheGuest
<1>6. DecisionInv'
  <2>1. pc'[r] \in {"org", "done"} /\ (pc'[r] = "done" => sent'[r] = 500)
    BY DEF Answer, IInv, TypeOK
  <2>2. Decided(r)'
    BY <2>1 DEF Decided, Admitted, Runs, Holding
  <2> QED BY <2>2, OthersStayDecided DEF Answer, IInv, TypeOK
<1> QED BY <1>1, <1>2, <1>3, <1>4, <1>5, <1>6 DEF IInv

\* The first of the two reads behind the visibility.
LEMMA ReadOrgKeeps == ASSUME IInv, NEW r \in Reqs, ReadOrg(r) PROVE IInv'
<1> USE CallerAssumption, ShapesAssumption, SettingsAssumption DEF ReadOrg, Goto, world, pools,
     answer,
     who, input, guest, instance
<1>0. /\ pc[r] \notin Runs \cup {"done"} /\ pc'[r] \notin Runs /\ logged' = logged
      /\ \A q \in Reqs \ {r} : pc'[q] = pc[q] /\ sent'[q] = sent[q]
  BY DEF IInv, TypeOK, Runs, Holding
<1>1. TypeOK'
  <2>1. vis'[r] \in Visibilities
    BY OrgVisibility
  <2>2. vis' \in [Reqs -> Visibilities \cup {None}]
    BY <2>1 DEF IInv, TypeOK
  <2> QED BY <2>2 DEF IInv, TypeOK, PCs
<1>2. RequestInv'
  <2>1. vis'[r] \in Visibilities
    BY OrgVisibility
  <2> QED BY <2>1 DEF IInv, TypeOK, RequestInv, UnderWay, Versioned, PathIsAGuests, Runs, Holding
<1>3. CaptureInv'
  BY <1>0, CapturesStay
<1>4. CallerInv'
  BY DEF IInv, TypeOK, CallerInv, Anonymous, RequestInv, UnderWay
<1>5. InstanceInv' /\ WriterInv'
  BY <1>0, BeforeTheGuest
<1>6. DecisionInv'
  <2>1. Least(vis'[r], {Declared(r), org.max})
    BY OrgVisibility
  <2>2. pc'[r] = IF deploy.workspace THEN "workspace" ELSE "caller"
    BY DEF IInv, TypeOK
  <2>3. ~deploy.workspace => Limits(r) = {Declared(r), org.max}
    BY DEF Limits
  <2>4. Declared(r)' = Declared(r) /\ Limits(r)' = Limits(r)
    BY DEF Declared, Limits
  <2>5. Decided(r)'
    <3>1. pc'[r] \notin Admitted \cup {"member", "done"}
      BY <2>2 DEF Admitted, Runs, Holding
    <3>2. Least(vis[r], {Declared(r), org.max})' /\ (~deploy.workspace => Least(vis[r], Limits(r))')
      <4>1. Least(vis[r], {Declared(r), org.max})'
        BY <2>1, <2>4 DEF Least
      <4>2. ~deploy.workspace => Least(vis[r], Limits(r))'
        <5>1. ASSUME ~deploy.workspace PROVE Least(vis'[r], Limits(r))
          BY <2>1, <2>3, <5>1
        <5>2. (~deploy.workspace)' <=> ~deploy.workspace
          OBVIOUS
        <5> QED BY <2>4, <5>1, <5>2 DEF Least
      <4> QED BY <4>1, <4>2
    <3> QED BY <2>2, <3>1, <3>2 DEF Decided
  <2> QED BY <2>5, OthersStayDecided DEF IInv, TypeOK
<1> QED BY <1>1, <1>2, <1>3, <1>4, <1>5, <1>6 DEF IInv

\* The second one: the least of all limits is known.
LEMMA ReadWorkspaceKeeps == ASSUME IInv, NEW r \in Reqs, ReadWorkspace(r) PROVE IInv'
<1> USE CallerAssumption, ShapesAssumption, SettingsAssumption DEF ReadWorkspace, Goto, world,
     pools,
     answer, who, input, guest, instance
<1>0. /\ pc[r] \notin Runs \cup {"done"} /\ pc'[r] \notin Runs /\ logged' = logged
      /\ \A q \in Reqs \ {r} : pc'[q] = pc[q] /\ sent'[q] = sent[q]
  BY DEF IInv, TypeOK, Runs, Holding
<1>1. TypeOK'
  <2>1. vis'[r] \in Visibilities
    BY WorkspaceVisibility
  <2>2. vis' \in [Reqs -> Visibilities \cup {None}]
    BY <2>1 DEF IInv, TypeOK
  <2> QED BY <2>2 DEF IInv, TypeOK, PCs
<1>2. RequestInv'
  <2>1. vis'[r] \in Visibilities
    BY WorkspaceVisibility
  <2> QED BY <2>1 DEF IInv, TypeOK, RequestInv, UnderWay, Versioned, PathIsAGuests, Runs, Holding
<1>3. CaptureInv'
  BY <1>0, CapturesStay
<1>4. CallerInv'
  BY DEF IInv, TypeOK, CallerInv, Anonymous, RequestInv, UnderWay
<1>5. InstanceInv' /\ WriterInv'
  BY <1>0, BeforeTheGuest
<1>6. DecisionInv'
  <2>1. vis[r] \in Visibilities /\ ver[r] \in Vers /\ pc'[r] = "caller"
    BY DEF IInv, TypeOK, RequestInv, UnderWay, Versioned, Runs, Holding
  <2>2. (wsMax = None => vis'[r] = vis[r]) /\ (wsMax # None => Least(vis'[r], {vis[r], wsMax}))
    BY WorkspaceVisibility
  <2>3. ASSUME r \in calm PROVE Least(vis'[r], Limits(r))
    <3>1. deploy.workspace /\ Least(vis[r], {Declared(r), org.max})
      BY <2>3 DEF IInv, DecisionInv, Decided
    <3>2. CASE wsMax = None
      BY <2>2, <3>1, <3>2 DEF Limits
    <3>3. CASE wsMax # None
      <4>1. wsMax \in Visibilities
        BY <3>3 DEF IInv, TypeOK
      <4>2. Least(vis'[r], {vis[r], wsMax})
        BY <2>2, <3>3
      <4>3. Limits(r) = {Declared(r), org.max} \cup {wsMax} /\ Limits(r) \subseteq Visibilities
        BY <2>1, <3>1, <3>3, LimitTypes DEF IInv, Limits
      <4>4. \A v \in Visibilities : Level(v) \in Int
        BY DEF Visibilities, Level
      <4> QED BY <2>1, <3>1, <4>1, <4>2, <4>3, <4>4 DEF Least
    <3> QED BY <3>2, <3>3
  <2>4. r \in calm' => Decided(r)'
    BY <2>1, <2>3 DEF Decided, Admitted, Least, Declared, Limits, Runs, Holding
  <2> QED BY <2>4, OthersStayDecided DEF IInv, TypeOK
<1> QED BY <1>1, <1>2, <1>3, <1>4, <1>5, <1>6 DEF IInv

\* Who calls is told apart from who may not, by the least of the limits.
LEMMA IdentifyKeeps == ASSUME IInv, NEW r \in Reqs, Identify(r) PROVE IInv'
<1> USE CallerAssumption, ShapesAssumption, SettingsAssumption DEF Identify, Goto, world, pools,
     answer,
     who, input, guest, instance
<1>0. /\ pc[r] \notin Runs \cup {"done"} /\ pc'[r] \notin Runs /\ logged' = logged
      /\ \A q \in Reqs \ {r} : pc'[q] = pc[q] /\ sent'[q] = sent[q]
  BY DEF IInv, TypeOK, Runs, Holding, Answer
<1>1. TypeOK'
  <2>1. AnswerIsTyped'
    <3>1. ASSUME NEW code \in {401, 403}, Answer(r, code) PROVE AnswerIsTyped'
      BY <3>1, AnswerTypes DEF IInv, Codes
    <3>2. ASSUME NEW to \in {"handler", "login", "member"}, pc' = [pc EXCEPT ![r] = to],
                 UNCHANGED <<sent, ended, logged>>
          PROVE  AnswerIsTyped'
      BY <3>2 DEF AnswerIsTyped, IInv, TypeOK, PCs
    <3> QED BY <3>1, <3>2
  <2>2. caller' \in [Reqs -> Users \cup {None}]
    <3>1. shape[r].user \in Users
      BY DEF IInv, RequestInv, UnderWay, Shape
    <3>2. caller' = caller \/ caller' = [caller EXCEPT ![r] = shape[r].user]
      OBVIOUS
    <3> QED BY <3>1, <3>2 DEF IInv, TypeOK
  <2> QED BY <2>1, <2>2 DEF AnswerIsTyped, IInv, TypeOK
<1>2. RequestInv'
  BY DEF IInv, TypeOK, RequestInv, UnderWay, Versioned, PathIsAGuests, Answer, Runs, Holding
<1>3. CaptureInv'
  BY <1>0, CapturesStay
<1>4. CallerInv'
  BY DEF IInv, TypeOK, CallerInv, Anonymous, RequestInv, UnderWay, Answer
<1>5. InstanceInv' /\ WriterInv'
  BY <1>0, BeforeTheGuest
<1>6. DecisionInv'
  <2> DEFINE u == shape[r].user
  <2>1. ver[r] \in Vers /\ u \in Users
    BY DEF IInv, RequestInv, UnderWay, Versioned, Shape, Runs, Holding
  <2>2. /\ pc'[r] = IF vis[r] = "public" THEN "handler"
                   ELSE IF ~Presents(r) THEN IF Browses(r) THEN "login" ELSE "done"
                   ELSE IF status[u] = "barred" THEN "done" ELSE "member"
        /\ pc'[r] = "member" => caller'[r] = u
    BY DEF Answer, IInv, TypeOK
  <2>3. ASSUME r \in calm PROVE Decided(r)'
    <3>1. Least(vis[r], Limits(r))
      BY <2>3 DEF IInv, DecisionInv, Decided
    <3>2. /\ MayCall(r)' <=> MayCall(r)
          /\ MayCall(r) => vis[r] = "public" \/ (Presents(r) /\ status[u] = "active")
          /\ vis[r] = "public" => MayCall(r)
      BY <2>1, <3>1, LeastDecides, MayCallStays DEF IInv
    <3>3. (Presents(r)' <=> Presents(r)) /\ Least(vis[r], Limits(r))'
      BY <3>1 DEF Presents, Least, Limits, Declared
    <3> QED BY <2>1, <2>2, <3>2, <3>3 DEF Decided, Admitted, IInv, TypeOK, Runs, Holding
  <2> QED BY <2>3, OthersStayDecided DEF Answer, IInv, TypeOK
<1> QED BY <1>1, <1>2, <1>3, <1>4, <1>5, <1>6 DEF IInv

\* A browser starts over, with the same path and host.
LEMMA ReturnKeeps == ASSUME IInv, NEW r \in Reqs, Return(r) PROVE IInv'
<1> USE CallerAssumption, ShapesAssumption, SettingsAssumption DEF Return, Goto, world, pools,
     answer,
     who, input, guest, instance
<1>0. /\ pc[r] \notin Runs \cup {"done"} /\ pc'[r] \notin Runs /\ logged' = logged
      /\ \A q \in Reqs \ {r} : pc'[q] = pc[q] /\ sent'[q] = sent[q]
  BY DEF IInv, TypeOK, Runs, Holding
<1>1. TypeOK'
  <2>1. [shape[r] EXCEPT !.cred = "cookie"] \in Shape
    BY DEF IInv, RequestInv, UnderWay, Shape
  <2> QED BY <2>1 DEF IInv, TypeOK, PCs
<1>2. RequestInv'
  <2>1. shape'[r] = [shape[r] EXCEPT !.cred = "cookie"] /\ shape[r] \in Shape
    BY DEF IInv, TypeOK, RequestInv, UnderWay
  <2>2. shape'[r] \in Shape /\ shape'[r].host = shape[r].host /\ shape'[r].path = shape[r].path
    BY <2>1 DEF Shape
  <2> QED BY <2>2 DEF IInv, TypeOK, RequestInv, UnderWay, Versioned, PathIsAGuests, Runs, Holding
<1>3. CaptureInv'
  BY <1>0, CapturesStay
<1>4. CallerInv'
  BY DEF IInv, TypeOK, CallerInv, Anonymous, RequestInv, UnderWay
<1>5. InstanceInv' /\ WriterInv'
  BY <1>0, BeforeTheGuest
<1>6. DecisionInv'
  <2>1. pc'[r] = "resolve"
    BY DEF IInv, TypeOK
  <2>2. Decided(r)'
    BY <2>1 DEF Decided, Admitted, Runs, Holding
  <2> QED BY <2>2, OthersStayDecided DEF IInv, TypeOK
<1> QED BY <1>1, <1>2, <1>3, <1>4, <1>5, <1>6 DEF IInv

\* The last of the conditions for a caller.
LEMMA CheckMemberKeeps == ASSUME IInv, NEW r \in Reqs, CheckMember(r) PROVE IInv'
<1> USE CallerAssumption, ShapesAssumption, SettingsAssumption DEF CheckMember, Goto, world,
     pools,
     answer, who, input, guest, instance
<1>0. /\ pc[r] \notin Runs \cup {"done"} /\ pc'[r] \notin Runs /\ logged' = logged
      /\ \A q \in Reqs \ {r} : pc'[q] = pc[q] /\ sent'[q] = sent[q]
  BY DEF IInv, TypeOK, Runs, Holding, Answer
<1>1. TypeOK'
  <2>1. AnswerIsTyped'
    BY AnswerTypes DEF AnswerIsTyped, IInv, TypeOK, PCs, Codes
  <2> QED BY <2>1 DEF AnswerIsTyped, IInv, TypeOK
<1>2. RequestInv'
  BY DEF IInv, TypeOK, RequestInv, UnderWay, Versioned, PathIsAGuests, Answer, Runs, Holding
<1>3. CaptureInv'
  BY <1>0, CapturesStay
<1>4. CallerInv'
  BY DEF IInv, TypeOK, CallerInv, Anonymous, RequestInv, UnderWay, Answer
<1>5. InstanceInv' /\ WriterInv'
  BY <1>0, BeforeTheGuest
<1>6. DecisionInv'
  <2>1. ver[r] \in Vers /\ pc'[r] = IF vis[r] = "workspace" /\ ~Belongs(caller[r]) THEN "done" ELSE "expose"
    BY DEF Answer, IInv, TypeOK, RequestInv, UnderWay, Versioned, Runs, Holding
  <2>2. ASSUME r \in calm PROVE Decided(r)'
    <3>1. Least(vis[r], Limits(r)) /\ vis[r] # "public" /\ caller[r] = shape[r].user
          /\ Presents(r) /\ status[shape[r].user] = "active"
      BY <2>2 DEF IInv, DecisionInv, Decided
    <3>2. /\ MayCall(r)' <=> MayCall(r)
          /\ MayCall(r) <=> vis[r] # "workspace" \/ Belongs(caller[r])
      BY <2>1, <3>1, LeastDecides, MayCallStays DEF IInv
    <3> QED BY <2>1, <3>2 DEF Decided, Admitted, Runs, Holding
  <2> QED BY <2>2, OthersStayDecided DEF Answer, IInv, TypeOK
<1> QED BY <1>1, <1>2, <1>3, <1>4, <1>5, <1>6 DEF IInv

\* Whether the caller is shown has no part in the decision.
LEMMA ExposeKeeps == ASSUME IInv, NEW r \in Reqs, Expose(r) PROVE IInv'
<1> USE CallerAssumption, ShapesAssumption, SettingsAssumption DEF Expose, Goto, world, pools,
     answer,
     who, input, guest, instance
<1>0. /\ pc[r] \notin Runs \cup {"done"} /\ pc'[r] \notin Runs /\ logged' = logged
      /\ \A q \in Reqs \ {r} : pc'[q] = pc[q] /\ sent'[q] = sent[q]
  BY DEF IInv, TypeOK, Runs, Holding
<1>1. TypeOK'
  BY DEF IInv, TypeOK, PCs, OrgRow
<1>2. RequestInv'
  BY DEF IInv, TypeOK, RequestInv, UnderWay, Versioned, PathIsAGuests, Runs, Holding
<1>3. CaptureInv'
  BY <1>0, CapturesStay
<1>4. CallerInv'
  BY DEF IInv, TypeOK, CallerInv, Anonymous, RequestInv, UnderWay
<1>5. InstanceInv' /\ WriterInv'
  BY <1>0, BeforeTheGuest
<1>6. DecisionInv'
  BY AdmittedGoesOn DEF IInv, TypeOK, Admitted, RequestInv, UnderWay, Runs, Holding
<1> QED BY <1>1, <1>2, <1>3, <1>4, <1>5, <1>6 DEF IInv

\* Where a request has been authorized.
Authorized == {"handler", "build", "wait", "begin"} \cup Runs

\* What is known of a request that has been authorized stays known.
LEMMA AuthorizedGoesOn ==
    ASSUME IInv, NEW r \in Reqs, UNCHANGED <<deploy, org, wsMax, members, status, who, input,
           seen, calm>>,
           pc[r] \in Authorized, pc'[r] \in Authorized \cup {"done"}, pc[r] \in Runs => pc'[r] \in Runs \cup {"done"},
           sent'[r] \notin {401, 403}, \A q \in Reqs \ {r} : pc'[q] = pc[q] /\ sent'[q] = sent[q]
    PROVE  RequestInv' /\ CallerInv' /\ DecisionInv'
<1> USE DEF who, input
<1>1. RequestInv'
  <2> SUFFICES ASSUME NEW q \in Reqs PROVE UnderWay(q)'
    BY DEF RequestInv
  <2>1. UnderWay(q)
    BY DEF IInv, RequestInv
  <2>2. CASE q = r
    BY <2>1, <2>2 DEF UnderWay, PathIsAGuests, Versioned, Authorized, Runs, Holding
  <2>3. CASE q # r
    BY <2>1, <2>3 DEF UnderWay, PathIsAGuests
  <2> QED BY <2>2, <2>3
<1>2. CallerInv'
  BY DEF IInv, CallerInv, Anonymous, Authorized, Runs, Holding
<1>3. DecisionInv'
  BY AdmittedGoesOn DEF Authorized, Admitted, Runs, Holding
<1> QED BY <1>1, <1>2, <1>3

\* A deadline decides nothing by itself.
LEMMA ExpireKeeps == ASSUME IInv, NEW r \in Reqs, Expire(r) PROVE IInv'
<1> USE CallerAssumption DEF Expire, Goto, world, pools, answer, who, input, guest, instance
<1>1. TypeOK'
  BY DEF IInv, TypeOK
<1>2. RequestInv' /\ CallerInv' /\ DecisionInv'
  BY AuthorizedGoesOn DEF IInv, TypeOK, Authorized, Runs, Holding, RequestInv, UnderWay
<1>3. CaptureInv'
  BY DEF IInv, CaptureInv
<1>4. InstanceInv' /\ WriterInv'
  BY DEF IInv, InstanceInv, OutputStaysOnInstance, WriterInv, LogMatchesAnswer, finalStatus
<1> QED BY <1>1, <1>2, <1>3, <1>4 DEF IInv

\* A request gets the pool that is there.
LEMMA FindKeeps == ASSUME IInv, NEW r \in Reqs, Find(r) PROVE IInv'
<1> USE CallerAssumption DEF Find, Goto, world, pools, answer, who, input, guest, instance
<1>1. TypeOK'
  BY DEF IInv, TypeOK, PCs, Runs, Holding, RequestInv, UnderWay, Versioned
<1>2. RequestInv' /\ CallerInv' /\ DecisionInv'
  <2>1. /\ pc[r] = "handler" /\ pc'[r] = "wait" /\ sent'[r] \notin {401, 403}
        /\ \A q \in Reqs \ {r} : pc'[q] = pc[q] /\ sent'[q] = sent[q]
    BY DEF IInv, TypeOK, RequestInv, UnderWay
  <2> QED BY <2>1, AuthorizedGoesOn DEF Authorized, Runs, Holding
<1>3. CaptureInv'
  BY CapturesStay DEF IInv, TypeOK, Runs, Holding
<1>4. InstanceInv' /\ WriterInv'
  BY BeforeTheGuest DEF IInv, TypeOK, Runs, Holding
<1> QED BY <1>1, <1>2, <1>3, <1>4 DEF IInv

\* A request that builds a pool gives it its name.
LEMMA BuildKeeps == ASSUME IInv, NEW r \in Reqs, Build(r) PROVE IInv'
<1> USE CallerAssumption DEF Build, Goto, world, pools, answer, who, input, guest, instance
<1>1. TypeOK'
  <2>1. warm' \in [Vers -> Reqs \cup {None}] /\ served' \in [Reqs -> Reqs \cup {None}] /\ pc' \in [Reqs -> PCs]
    BY DEF IInv, TypeOK, PCs
  <2> QED BY <2>1 DEF IInv, TypeOK
<1>2. RequestInv' /\ CallerInv' /\ DecisionInv'
  <2>1. /\ pc[r] = "handler" /\ pc'[r] = "build" /\ sent'[r] \notin {401, 403}
        /\ \A q \in Reqs \ {r} : pc'[q] = pc[q] /\ sent'[q] = sent[q]
    BY DEF IInv, TypeOK, RequestInv, UnderWay
  <2> QED BY <2>1, AuthorizedGoesOn DEF Authorized, Runs, Holding
<1>3. CaptureInv'
  BY CapturesStay DEF IInv, TypeOK, Runs, Holding
<1>4. InstanceInv' /\ WriterInv'
  BY BeforeTheGuest DEF IInv, TypeOK, Runs, Holding
<1> QED BY <1>1, <1>2, <1>3, <1>4 DEF IInv

\* Nothing is captured on the connection of a request that does not run.
LEMMA NoCaptureYet ==
    ASSUME IInv, NEW r \in Reqs, pc[r] \notin Runs \cup {"new", "done"}
    PROVE  Current(r) = None
<1> SUFFICES ASSUME byConn[conn[r]] # None PROVE FALSE
  BY DEF Current
<1> DEFINE q == byConn[conn[r]]
<1>1. conn[r] \in Conns /\ conn[r] # None
  BY CallerAssumption DEF IInv, RequestInv, UnderWay
<1>2. q \in Reqs /\ conn[q] = conn[r] /\ pc[q] \in Runs
  BY <1>1 DEF IInv, TypeOK, CaptureInv
<1>3. q = r \/ pc[q] = "done" \/ pc[r] = "done"
  BY <1>1, <1>2 DEF IInv, CaptureInv
<1> QED BY <1>2, <1>3 DEF Runs, Holding

\* The top level of a module runs where no capture is.
LEMMA BuildEndsKeeps == ASSUME IInv, NEW r \in Reqs, BuildEnds(r) PROVE IInv'
<1> USE CallerAssumption DEF BuildEnds, Goto, world, pools, answer, who, input, guest, instance
<1>0. out' = out
  BY NoCaptureYet DEF Prints, Runs, Holding
<1>1. TypeOK'
  BY <1>0 DEF IInv, TypeOK, PCs
<1>2. RequestInv' /\ CallerInv' /\ DecisionInv'
  <2>1. /\ pc[r] = "build" /\ pc'[r] = "wait" /\ sent'[r] \notin {401, 403}
        /\ \A q \in Reqs \ {r} : pc'[q] = pc[q] /\ sent'[q] = sent[q]
    BY DEF IInv, TypeOK, RequestInv, UnderWay
  <2> QED BY <2>1, AuthorizedGoesOn DEF Authorized, Runs, Holding
<1>3. CaptureInv'
  BY CapturesStay DEF IInv, TypeOK, Runs, Holding
<1>4. InstanceInv' /\ WriterInv'
  BY <1>0, BeforeTheGuest DEF IInv, TypeOK, Runs, Holding
<1> QED BY <1>1, <1>2, <1>3, <1>4 DEF IInv

\* The pool that a request waits for is ready, or broken.
LEMMA ReadyKeeps == ASSUME IInv, NEW r \in Reqs, Ready(r) PROVE IInv'
<1> USE CallerAssumption DEF Ready, Goto, world, pools, answer, who, input, guest, instance
<1>0. /\ pc[r] \notin Runs \cup {"done"} /\ pc'[r] \notin Runs /\ logged' = logged
      /\ \A q \in Reqs \ {r} : pc'[q] = pc[q] /\ sent'[q] = sent[q]
  BY DEF IInv, TypeOK, Runs, Holding, Answer
<1>1. TypeOK'
  <2>1. AnswerIsTyped'
    <3>1. CASE served[r] \in bad
      <4>1. TypeOK /\ 500 \in Codes /\ Answer(r, 500) BY <3>1 DEF IInv, Codes
      <4> QED BY ONLY <4>1, AnswerTypes, r \in Reqs
    <3>2. CASE served[r] \notin bad
      <4>1. pc' = [pc EXCEPT ![r] = "begin"] /\ sent' = sent /\ ended' = ended /\ logged' = logged
        BY <3>2
      <4> QED BY <4>1 DEF AnswerIsTyped, IInv, TypeOK, PCs
    <3> QED BY <3>1, <3>2
  <2> QED BY <2>1 DEF AnswerIsTyped, IInv, TypeOK
<1>2. RequestInv' /\ CallerInv' /\ DecisionInv'
  BY AuthorizedGoesOn DEF IInv, TypeOK, Authorized, Runs, Holding, Codes, RequestInv, UnderWay,
       Answer
<1>3. CaptureInv'
  BY <1>0, CapturesStay
<1>4. InstanceInv' /\ WriterInv'
  BY <1>0, BeforeTheGuest
<1> QED BY <1>1, <1>2, <1>3, <1>4 DEF IInv

\* A request does not wait for its pool any longer.
LEMMA WaitExpiresKeeps == ASSUME IInv, NEW r \in Reqs, WaitExpires(r) PROVE IInv'
<1> USE CallerAssumption DEF WaitExpires, Goto, world, pools, answer, who, input, guest, instance
<1>0. /\ pc[r] \notin Runs \cup {"done"} /\ pc'[r] \notin Runs /\ logged' = logged
      /\ \A q \in Reqs \ {r} : pc'[q] = pc[q] /\ sent'[q] = sent[q]
  BY DEF IInv, TypeOK, Runs, Holding, Answer
<1>1. TypeOK'
  <2>1. AnswerIsTyped'
    BY AnswerTypes DEF AnswerIsTyped, IInv, TypeOK, PCs, Codes
  <2> QED BY <2>1 DEF AnswerIsTyped, IInv, TypeOK
<1>2. RequestInv' /\ CallerInv' /\ DecisionInv'
  BY AuthorizedGoesOn DEF IInv, TypeOK, Authorized, Runs, Holding, Codes, RequestInv, UnderWay,
       Answer
<1>3. CaptureInv'
  BY <1>0, CapturesStay
<1>4. InstanceInv' /\ WriterInv'
  BY <1>0, BeforeTheGuest
<1> QED BY <1>1, <1>2, <1>3, <1>4 DEF IInv

\* The capture of a connection begins where none is left, on an instance that
\* nobody holds.
LEMMA BeginKeeps == ASSUME IInv, NEW r \in Reqs, Begin(r) PROVE IInv'
<1> USE CallerAssumption DEF Begin, Goto, world, pools, answer, who, input, guest, instance
<1>0. /\ pc[r] = "begin" /\ pc' = [pc EXCEPT ![r] = "body"]
      /\ inst'[r] \in Instances /\ past'[r] = {q \in Reqs : pc[q] \in {"after", "done"}}
      /\ \A q \in Reqs : pc[q] \in Holding /\ served[q] = served[r] => inst[q] # inst'[r]
      /\ \A q \in Reqs \ {r} : inst'[q] = inst[q] /\ past'[q] = past[q] /\ pc'[q] = pc[q] /\ seen'[q] = seen[q]
      /\ pc'[r] = "body" /\ seen'[r] = IF caller[r] # None /\ shown[r] THEN {caller[r]} ELSE {}
  BY DEF IInv, TypeOK
<1>1. TypeOK'
  <2>1. inst' \in [Reqs -> Instances \cup {None}] /\ past' \in [Reqs -> SUBSET Reqs]
    BY DEF IInv, TypeOK
  <2>2. seen' \in [Reqs -> SUBSET Users] /\ byConn' \in [Conns -> Reqs \cup {None}] /\ pc' \in [Reqs -> PCs]
    <3>1. seen' \in [Reqs -> SUBSET Users]
      BY DEF IInv, TypeOK
    <3>2. byConn' \in [Conns -> Reqs \cup {None}]
      BY DEF IInv, TypeOK
    <3>3. pc' \in [Reqs -> PCs]
      BY <1>0 DEF IInv, TypeOK, PCs, Runs, Holding
    <3> QED BY <3>1, <3>2, <3>3
  <2> QED BY <2>1, <2>2 DEF IInv, TypeOK
<1>2. RequestInv'
  <2> SUFFICES ASSUME NEW q \in Reqs PROVE UnderWay(q)'
    BY DEF RequestInv
  <2>1. UnderWay(q)
    BY DEF IInv, RequestInv
  <2> QED BY <1>0, <2>1 DEF UnderWay, PathIsAGuests, Versioned, Runs, Holding
<1>3. CaptureInv'
  BY <1>0 DEF IInv, TypeOK, CaptureInv, Runs, Holding, RequestInv, UnderWay
<1>4. CallerInv'
  BY <1>0 DEF IInv, CallerInv, Anonymous
<1>5. DecisionInv'
  BY <1>0, AdmittedGoesOn DEF IInv, Admitted, Runs, Holding
<1>6. InstanceInv'
  <2>1. out[r] = {} /\ \A q \in Reqs : r \notin past[q] /\ r \notin out[q] \ {q}
    BY <1>0 DEF IInv, InstanceInv, OutputStaysOnInstance, Runs, Holding
  <2>2. ASSUME NEW q \in Reqs
        PROVE  /\ pc'[q] \notin Runs \cup {"done"} => inst'[q] = None /\ out[q] = {}
               /\ pc'[q] \in Holding => inst'[q] # None
               /\ \A p \in past'[q] : pc'[p] \in {"after", "done"}
    BY <1>0, <2>1, <2>2 DEF IInv, TypeOK, InstanceInv, Runs, Holding
  <2>3. ASSUME NEW p \in Reqs, NEW q \in Reqs, p # q, pc'[q] \in Holding,
               served[p] = served[q], inst'[p] = inst'[q]
        PROVE  pc'[p] \notin Holding /\ (pc'[p] \in {"after", "done"} => p \in past'[q])
    <3>1. CASE q = r
      BY <1>0, <2>3, <3>1
    <3>2. CASE p = r
      BY <1>0, <2>3, <3>2
    <3>3. CASE p # r /\ q # r
      BY <1>0, <2>3, <3>3 DEF IInv, InstanceInv
    <3> QED BY <3>1, <3>2, <3>3
  <2>4. OutputStaysOnInstance'
    BY <1>0, <2>1 DEF IInv, TypeOK, InstanceInv, OutputStaysOnInstance
  <2> QED BY <2>2, <2>3, <2>4 DEF InstanceInv
<1>7. WriterInv'
  BY <1>0 DEF IInv, WriterInv, LogMatchesAnswer, Started, finalStatus
<1> QED BY <1>1, <1>2, <1>3, <1>4, <1>5, <1>6, <1>7 DEF IInv

\* What is printed goes to the capture of the goroutine, which is that of the
\* request that holds the instance.
LEMMA ConsoleKeeps == ASSUME IInv, NEW r \in Reqs, Console(r) PROVE IInv'
<1> USE CallerAssumption DEF Console, Goto, world, pools, answer, who, input, guest, instance
<1>0. PICK q \in Resident(r) : out' = Prints(r, q)
  OBVIOUS
<1>1. /\ q \in Reqs /\ pc[r] \in Holding
      /\ q # r => pc[q] \in {"after", "done"} /\ served[q] = served[r] /\ inst[q] = inst[r]
  BY <1>0 DEF Resident, Holding
<1>2. out' = out \/ out' = [out EXCEPT ![r] = @ \cup {q}]
  <2> DEFINE s == byConn[conn[r]]
  <2>1. CASE s = None
    BY <1>0, <2>1 DEF Prints, Current
  <2>2. CASE s # None
    <3>1. conn[r] \in Conns
      BY <1>1 DEF IInv, RequestInv, UnderWay, Holding
    <3>2. s \in Reqs /\ conn[s] = conn[r] /\ pc[s] \in Runs /\ conn[r] # None
      BY <2>2, <3>1 DEF IInv, TypeOK, CaptureInv
    <3>3. s = r
      BY <1>1, <3>2 DEF IInv, CaptureInv, Runs, Holding
    <3> QED BY <1>0, <2>2, <3>3 DEF Prints, Current
  <2> QED BY <2>1, <2>2
<1>3. TypeOK'
  <2>1. out' \in [Reqs -> SUBSET Reqs]
    BY <1>1, <1>2 DEF IInv, TypeOK
  <2> QED BY <2>1 DEF IInv, TypeOK
<1>4. RequestInv' /\ CallerInv' /\ DecisionInv'
  BY <1>1, AuthorizedGoesOn DEF IInv, Authorized, Runs, Holding, RequestInv, UnderWay
<1>5. CaptureInv'
  BY DEF IInv, CaptureInv
<1>6. InstanceInv'
  <2>1. ASSUME NEW s \in Reqs, NEW p \in out'[s] \ {s}
        PROVE  p \in past[s] /\ served[p] = served[s] /\ inst[p] = inst[s]
    <3>1. CASE p \in out[s]
      BY <3>1, <2>1 DEF IInv, InstanceInv, OutputStaysOnInstance
    <3>2. CASE p \notin out[s]
      <4>1. s = r /\ p = q /\ q # r
        BY <1>2, <2>1, <3>2 DEF IInv, TypeOK
      <4> QED BY <1>1, <4>1 DEF IInv, InstanceInv
    <3> QED BY <3>1, <3>2
  <2>2. \A s \in Reqs : pc[s] \notin Runs \cup {"done"} => out'[s] = out[s]
    BY <1>1, <1>2 DEF IInv, TypeOK, Runs
  <2> QED BY <2>1, <2>2 DEF IInv, InstanceInv, OutputStaysOnInstance
<1>7. WriterInv'
  BY DEF IInv, WriterInv, LogMatchesAnswer, finalStatus
<1> QED BY <1>1, <1>2, <1>3, <1>4, <1>5, <1>6, <1>7 DEF IInv

\* The answer of a pool without a free instance.
LEMMA NoWorkerKeeps == ASSUME IInv, NEW r \in Reqs, NoWorker(r) PROVE IInv'
<1> USE CallerAssumption DEF NoWorker, Goto, world, pools, answer, who, input, guest, instance
<1>1. WriterInv' /\ iw' \in [Reqs -> Writer] /\ sent' \in [Reqs -> Codes \cup {None}] /\ sent'[r] \notin {401, 403}
  <2>1. pc[r] # "done" /\ pc'[r] \in Started /\ \A q \in Reqs \ {r} : pc'[q] = pc[q]
    BY DEF IInv, TypeOK, Started, Holding
  <2>2. \E oom \in BOOLEAN, length \in BOOLEAN : WriteHeader(r, 503, oom, length)
    BY Zenon DEF NoWorker
  <2> QED BY <2>1, <2>2, StartedWriter
<1>2. TypeOK'
  BY <1>1 DEF IInv, TypeOK, PCs, Runs, Holding
<1>3. RequestInv' /\ CallerInv' /\ DecisionInv'
  BY <1>1, AuthorizedGoesOn DEF IInv, TypeOK, WriteHeader, Authorized, Runs, Holding
<1>4. CaptureInv'
  BY DEF IInv, TypeOK, CaptureInv, Runs, Holding, RequestInv, UnderWay
<1>5. InstanceInv'
  <2>1. inst[r] = None /\ out[r] = {} /\ \A q \in Reqs : r \notin past[q]
    BY DEF IInv, InstanceInv, Runs, Holding
  <2>2. \A q \in Reqs : pc'[q] \in Holding => pc[q] \in Holding /\ q # r
    BY DEF IInv, TypeOK, Holding
  <2>3. \A q \in Reqs : q # r => pc'[q] = pc[q]
    BY DEF IInv, TypeOK
  <2>4. ASSUME NEW q \in Reqs
        PROVE  /\ pc'[q] \notin Runs \cup {"done"} => inst[q] = None /\ out[q] = {}
               /\ pc'[q] \in Holding => inst[q] # None
               /\ \A p \in past[q] : pc'[p] \in {"after", "done"}
    BY <2>1, <2>2, <2>3, <2>4 DEF IInv, TypeOK, InstanceInv
  <2>5. ASSUME NEW p \in Reqs, NEW q \in Reqs, p # q, pc'[q] \in Holding,
               served[p] = served[q], inst[p] = inst[q]
        PROVE  pc'[p] \notin Holding /\ (pc'[p] \in {"after", "done"} => p \in past[q])
    <3>1. pc[q] \in Holding /\ inst[q] # None /\ p # r
      BY <2>1, <2>2, <2>5 DEF IInv, InstanceInv
    <3> QED BY <2>3, <2>5, <3>1 DEF IInv, InstanceInv
  <2> QED BY <2>4, <2>5 DEF IInv, InstanceInv, OutputStaysOnInstance
<1> QED BY <1>1, <1>2, <1>3, <1>4, <1>5 DEF IInv

\* A whole response gives the instance back.
LEMMA ReplyKeeps ==
    ASSUME IInv, NEW r \in Reqs, NEW code \in {200, 413, 500}, NEW oom \in BOOLEAN,
           pc[r] \in Holding,
           Reply(r, code, oom)
    PROVE  IInv'
<1> USE CallerAssumption DEF Reply, Goto, world, pools, answer, who, input, guest, instance
<1>1. WriterInv' /\ iw' \in [Reqs -> Writer] /\ sent' \in [Reqs -> Codes \cup {None}] /\ sent'[r] \notin {401, 403}
  <2>1. pc[r] # "done" /\ pc'[r] \in Started /\ \A q \in Reqs \ {r} : pc'[q] = pc[q]
    BY DEF IInv, TypeOK, Started, Holding
  <2>2. \E length \in BOOLEAN : WriteHeader(r, code, oom, length)
    BY Zenon DEF Reply
  <2> QED BY <2>1, <2>2, StartedWriter
<1>2. TypeOK'
  BY <1>1 DEF IInv, TypeOK, PCs, Runs, Holding
<1>3. RequestInv' /\ CallerInv' /\ DecisionInv'
  BY <1>1, AuthorizedGoesOn DEF IInv, TypeOK, WriteHeader, Authorized, Runs, Holding
<1>4. CaptureInv'
  BY CapturesStay DEF IInv, TypeOK, Runs, Holding
<1>5. InstanceInv'
  BY OnTheInstance DEF IInv, TypeOK, Runs, Holding
<1> QED BY <1>1, <1>2, <1>3, <1>4, <1>5 DEF IInv

\* A streamed response starts.
LEMMA StreamKeeps ==
    ASSUME IInv, NEW r \in Reqs, NEW code \in {200, 500}, NEW oom \in BOOLEAN,
           NEW length \in BOOLEAN,
           Stream(r, code, oom, length)
    PROVE  IInv'
<1> USE CallerAssumption DEF Stream, Goto, world, pools, answer, who, input, guest, instance
<1>1. WriterInv' /\ iw' \in [Reqs -> Writer] /\ sent' \in [Reqs -> Codes \cup {None}] /\ sent'[r] \notin {401, 403}
  BY StartedWriter DEF IInv, TypeOK, Started
<1>2. TypeOK'
  BY <1>1 DEF IInv, TypeOK, PCs, Runs, Holding
<1>3. RequestInv' /\ CallerInv' /\ DecisionInv'
  BY <1>1, AuthorizedGoesOn DEF IInv, TypeOK, WriteHeader, Authorized, Runs, Holding
<1>4. CaptureInv'
  BY CapturesStay DEF IInv, TypeOK, Runs, Holding
<1>5. InstanceInv'
  BY OnTheInstance DEF IInv, TypeOK, Runs, Holding
<1> QED BY <1>1, <1>2, <1>3, <1>4, <1>5 DEF IInv

\* A step from one wait for the client or the guest to another.
LEMMA GoesOnKeeps == ASSUME IInv, NEW r \in Reqs, GoesOn(r) \/ StreamGoesOn(r) PROVE IInv'
<1> USE CallerAssumption DEF GoesOn, StreamGoesOn, Goto, world, pools, answer, who, input, guest,
     instance
<1>1. TypeOK'
  BY DEF IInv, TypeOK, PCs, Runs, Holding
<1>2. RequestInv' /\ CallerInv' /\ DecisionInv'
  BY AuthorizedGoesOn DEF IInv, TypeOK, Authorized, Runs, Holding, RequestInv, UnderWay
<1>3. CaptureInv'
  BY CapturesStay DEF IInv, TypeOK, Runs, Holding
<1>4. InstanceInv'
  BY OnTheInstance DEF IInv, TypeOK, Runs, Holding
<1>5. WriterInv'
  BY DEF IInv, TypeOK, WriterInv, LogMatchesAnswer, Started, finalStatus
<1> QED BY <1>1, <1>2, <1>3, <1>4, <1>5 DEF IInv

\* A stream that is cut ends its capture all the same.
LEMMA StreamCutKeeps == ASSUME IInv, NEW r \in Reqs, StreamCut(r) PROVE IInv'
<1> USE CallerAssumption DEF StreamCut, Goto, world, pools, answer, who, input, guest, instance
<1>1. TypeOK'
  BY DEF IInv, TypeOK, PCs
<1>2. RequestInv' /\ CallerInv' /\ DecisionInv'
  BY AuthorizedGoesOn DEF IInv, TypeOK, Authorized, Runs, Holding, RequestInv, UnderWay
<1>3. CaptureInv'
  BY DEF IInv, TypeOK, CaptureInv, Runs, Holding, RequestInv, UnderWay
<1>4. InstanceInv'
  BY OnTheInstance DEF IInv, TypeOK, Runs, Holding
<1>5. WriterInv'
  BY DEF IInv, TypeOK, WriterInv, LogMatchesAnswer, Started, finalStatus
<1> QED BY <1>1, <1>2, <1>3, <1>4, <1>5 DEF IInv

\* The log gets what the writer remembers.
LEMMA AfterKeeps == ASSUME IInv, NEW r \in Reqs, After(r) PROVE IInv'
<1> USE CallerAssumption DEF After, Goto, world, pools, answer, who, input, guest, instance
<1>1. finalStatus(r) = sent[r] /\ finalStatus(r) \in Codes /\ logged' = [logged EXCEPT ![r] = finalStatus(r)]
  BY DEF IInv, TypeOK, WriterInv, Started, Writer, Codes, finalStatus
<1>2. TypeOK'
  <2>1. warm' \in [Vers -> Reqs \cup {None}]
    BY DEF IInv, TypeOK
  <2>2. logged' \in [Reqs -> Codes \cup {None}]
    BY <1>1 DEF IInv, TypeOK
  <2> QED BY <2>1, <2>2 DEF IInv, TypeOK, PCs
<1>3. RequestInv' /\ CallerInv' /\ DecisionInv'
  BY AuthorizedGoesOn DEF IInv, TypeOK, Authorized, Runs, Holding, RequestInv, UnderWay
<1>4. CaptureInv'
  BY DEF IInv, TypeOK, CaptureInv, Runs, Holding, RequestInv, UnderWay
<1>5. InstanceInv'
  BY OnTheInstance DEF IInv, TypeOK, Runs, Holding
<1>6. WriterInv'
  <2>1. \A q \in Reqs : (q # r => pc'[q] = pc[q] /\ logged'[q] = logged[q]) /\ finalStatus(q)' = finalStatus(q)
    BY DEF IInv, TypeOK, finalStatus
  <2> QED BY <1>1, <2>1 DEF IInv, TypeOK, WriterInv, LogMatchesAnswer, Started
<1> QED BY <1>1, <1>2, <1>3, <1>4, <1>5, <1>6 DEF IInv

\* A connection takes a request once it has answered the last.
LEMMA ArriveKeeps ==
    ASSUME IInv, NEW r \in Reqs, NEW c \in Conns, NEW s \in Shapes[r], Arrive(r, c, s)
    PROVE  IInv'
<1> USE CallerAssumption, ShapesAssumption, SettingsAssumption DEF Arrive, Goto, world, pools,
     answer,
     who, input, guest, instance
<1>0. /\ pc[r] \notin Runs \cup {"done"} /\ pc'[r] \notin Runs /\ logged' = logged
      /\ \A q \in Reqs \ {r} : pc'[q] = pc[q] /\ sent'[q] = sent[q]
  BY DEF IInv, TypeOK, Runs, Holding, Answer
<1>1. TypeOK'
  <2>1. s \in Shape
    OBVIOUS
  <2>2. Route(s) # "invoke" => CodeOf[Route(s)] \in Codes
    <3> DEFINE R == {"redirect", "platform", "notFound", "misdirected", "notImplemented"}
    <3>1. Control(s) \in R \cup {"invoke"} BY DEF Control
    <3>2. ByHost(s) \in R \cup {"invoke"} BY <3>1 DEF ByHost
    <3>3. Route(s) \in R \cup {"invoke"} BY <3>1, <3>2 DEF Route
    <3>4. \A x \in R : CodeOf[x] \in Codes BY DEF CodeOf, Codes
    <3> QED BY ONLY <3>3, <3>4
  <2>3. AnswerIsTyped'
    <3>1. CASE Route(s) # "invoke"
      <4>1. TypeOK /\ CodeOf[Route(s)] \in Codes /\ Answer(r, CodeOf[Route(s)])
        BY <2>2, <3>1 DEF IInv
      <4> QED BY ONLY <4>1, AnswerTypes, r \in Reqs
    <3>2. CASE Route(s) = "invoke"
      <4>1. pc' = [pc EXCEPT ![r] = "resolve"] /\ sent' = sent /\ ended' = ended /\ logged' = logged
        BY <3>2
      <4> QED BY <4>1 DEF AnswerIsTyped, IInv, TypeOK, PCs
    <3> QED BY <3>1, <3>2
  <2> QED BY <2>1, <2>3 DEF AnswerIsTyped, IInv, TypeOK
<1>2. RequestInv'
  <2> SUFFICES ASSUME NEW q \in Reqs PROVE UnderWay(q)'
    BY DEF RequestInv
  <2>1. UnderWay(q) /\ ver' = ver /\ vis' = vis
    BY DEF IInv, RequestInv
  <2>2. CASE q = r
    <3>1. s \in Shape /\ shape'[r] = s /\ conn'[r] = c
      BY DEF IInv, TypeOK
    <3>2. pc'[r] = (IF Route(s) = "invoke" THEN "resolve" ELSE "done") /\ (pc'[r] # "done" => sent' = sent)
      BY DEF IInv, TypeOK, Answer
    <3>3. ASSUME pc'[r] # "done" PROVE PathIsAGuests(r)'
      <4>1. IF deploy.hosts /\ s.host = "function" THEN s.path \notin {"callback", "funcbox"}
            ELSE s.path = "guest" /\ (deploy.hosts => s.host = "control")
        BY <3>1, <3>2, <3>3, RouteToGuest
      <4> QED BY <3>1, <4>1 DEF PathIsAGuests
    <3> QED BY <2>1, <2>2, <3>1, <3>2, <3>3 DEF UnderWay, Versioned, Runs, Holding
  <2>3. CASE q # r
    <3>1. pc'[q] = pc[q] /\ shape'[q] = shape[q] /\ conn'[q] = conn[q] /\ sent'[q] = sent[q]
      BY <2>3 DEF IInv, TypeOK, Answer
    <3> QED BY <2>1, <3>1 DEF UnderWay, PathIsAGuests
  <2> QED BY <2>2, <2>3
<1>3. CaptureInv'
  BY DEF IInv, TypeOK, CaptureInv, Runs, RequestInv, UnderWay, Answer
<1>6. InstanceInv' /\ WriterInv'
  BY <1>0, BeforeTheGuest
<1>4. CallerInv'
  BY DEF IInv, TypeOK, CallerInv, Anonymous, RequestInv, UnderWay, Answer
<1>5. DecisionInv'
  <2>1. Route(s) # "invoke" => CodeOf[Route(s)] \notin {401, 403}
    BY DEF Route, ByHost, Control, CodeOf
  <2>2. pc'[r] \in {"resolve", "done"} /\ (pc'[r] = "done" => sent'[r] \notin {401, 403})
    BY <2>1 DEF Answer, IInv, TypeOK
  <2>3. Decided(r)'
    BY <2>2 DEF Decided, Admitted, Runs, Holding
  <2> QED BY <2>3, OthersStayDecided DEF Answer, IInv, TypeOK
<1> QED BY <1>1, <1>2, <1>3, <1>4, <1>5, <1>6 DEF IInv

\* Another request changes the settings, the members, a user or the function:
\* no request is calm any more.
LEMMA ChangeKeeps == ASSUME IInv, Change PROVE IInv'
<1> USE CallerAssumption, SettingsAssumption DEF Change, pools, answer, who, input, guest,
     instance
<1>1. TypeOK'
  <2>1. status' \in [Users -> {"active", "barred"}] /\ members' \subseteq Users
    BY DEF IInv, TypeOK
  <2>2. org' \in OrgChoices /\ wsMax' \in WsChoices /\ active' \in Vers \cup {None, "gone"} /\ changes' \in Nat
    BY DEF IInv, TypeOK
  <2> QED BY <2>1, <2>2 DEF IInv, TypeOK
<1>2. RequestInv' /\ CaptureInv'
  BY DEF IInv, RequestInv, UnderWay, CaptureInv, PathIsAGuests
<1>3. CallerInv' /\ DecisionInv'
  BY DEF IInv, CallerInv, DecisionInv
<1>4. InstanceInv' /\ WriterInv'
  BY DEF IInv, InstanceInv, OutputStaysOnInstance, WriterInv, LogMatchesAnswer, finalStatus
<1> QED BY <1>1, <1>2, <1>3, <1>4 DEF IInv

\* A step that changes nothing.
LEMMA StutterKeeps == ASSUME IInv, UNCHANGED vars PROVE IInv'
<1> USE DEF vars, world, pools, answer, who, input, guest, instance
<1>1. TypeOK'
  BY DEF IInv, TypeOK
<1>2. RequestInv' /\ CaptureInv'
  BY DEF IInv, RequestInv, UnderWay, CaptureInv, PathIsAGuests
<1>3. CallerInv' /\ InstanceInv'
  BY DEF IInv, CallerInv, InstanceInv, OutputStaysOnInstance
<1>4. DecisionInv'
  BY MayCallStays DEF IInv, TypeOK, DecisionInv, Decided, Least, Declared, Limits, Presents
<1>5. WriterInv'
  BY DEF IInv, WriterInv, LogMatchesAnswer, finalStatus
<1> QED BY <1>1, <1>2, <1>3, <1>4, <1>5 DEF IInv

\* No request has come in.
LEMMA InitInvariant == Init => IInv
<1> SUFFICES ASSUME Init PROVE IInv
  OBVIOUS
<1> USE CallerAssumption, SettingsAssumption DEF Init
<1>1. TypeOK
  BY DEF TypeOK, NoWriter, Writer, PCs
<1>2. RequestInv /\ CaptureInv
  BY DEF RequestInv, UnderWay, CaptureInv, Versioned, Runs, Holding
<1>3. CallerInv /\ DecisionInv
  BY DEF CallerInv, DecisionInv
<1>4. InstanceInv /\ WriterInv
  BY DEF InstanceInv, OutputStaysOnInstance, WriterInv, LogMatchesAnswer, Started, NoWriter, Runs,
       Holding
<1> QED BY <1>1, <1>2, <1>3, <1>4 DEF IInv

\* The invariant is inductive.
LEMMA NextInvariant == IInv /\ [Next]_vars => IInv'
<1> SUFFICES ASSUME IInv, [Next]_vars PROVE IInv'
  OBVIOUS
<1>1. ASSUME NEW r \in Reqs, Step(r) PROVE IInv'
  <2>1. CASE Interrupt(r)
    BY <2>1, ReplyKeeps DEF Interrupt, HandlerFails, Holding
  <2>2. CASE Resolve(r) \/ LoadVersion(r) \/ ReadOrg(r) \/ ReadWorkspace(r) \/ Identify(r)
             \/ CheckMember(r) \/ Expose(r)
    BY <2>2, ResolveKeeps, LoadVersionKeeps, ReadOrgKeeps, ReadWorkspaceKeeps, IdentifyKeeps,
       CheckMemberKeeps, ExposeKeeps
  <2> QED BY <1>1, <2>1, <2>2, FindKeeps, BuildKeeps, ReadyKeeps, WaitExpiresKeeps, BeginKeeps,
             NoWorkerKeeps, AfterKeeps DEF Step
<1>2. ASSUME NEW r \in Reqs, Guest(r) \/ Cut(r) PROVE IInv'
  <2>1. CASE BodyFails(r)
    BY <2>1, ReplyKeeps DEF BodyFails, Holding
  <2>2. ASSUME NEW oom \in BOOLEAN, HandlerFails(r, oom) PROVE IInv'
    BY <2>2, ReplyKeeps DEF HandlerFails, Holding
  <2>3. ASSUME NEW code \in {200, 500}, NEW oom \in BOOLEAN, Respond(r, code, oom) PROVE IInv'
    BY <2>3, ReplyKeeps DEF Respond, Holding
  <2>4. ASSUME NEW code \in {200, 500}, NEW oom \in BOOLEAN, NEW length \in BOOLEAN, Stream(r,
               code, oom, length)
        PROVE  IInv'
    BY <2>4, StreamKeeps
  <2> QED BY <1>2, <2>1, <2>2, <2>3, <2>4, BuildEndsKeeps, ConsoleKeeps, GoesOnKeeps,
       StreamCutKeeps DEF Guest, Cut
<1>3. ASSUME NEW r \in Reqs, NEW c \in Conns, NEW s \in Shapes[r], Arrive(r, c, s) PROVE IInv'
  BY <1>3, ArriveKeeps
<1>4. ASSUME NEW r \in Reqs, Expire(r) \/ Return(r) PROVE IInv'
  BY <1>4, ExpireKeeps, ReturnKeeps
<1> QED BY <1>1, <1>2, <1>3, <1>4, ChangeKeeps, StutterKeeps DEF Next

LEMMA Invariance == Spec => []IInv
BY InitInvariant, NextInvariant, PTL DEF Spec

-----------------------------------------------------------------------------
(***************************************************************************)
(* Theorems.                                                               *)
(***************************************************************************)

\* The registers of the server and of every request have their types.
THEOREM TypeCorrect == Spec => []TypeOK
<1>1. IInv => TypeOK
  BY DEF IInv
<1> QED BY <1>1, Invariance, PTL

\* However long the chain of reads in resolveVisibility and authorize is, a
\* request since whose arrival nothing changed reaches the guest only if its
\* caller may call the function, and is turned away only if not.
THEOREM AdmissionHolds == Spec => []AdmissionIsExact
<1>1. IInv => AdmissionIsExact
  BY DEF IInv, DecisionInv, Decided, Admitted, AdmissionIsExact, Runs, Holding
<1> QED BY <1>1, Invariance, PTL

\* Paths and hosts the server keeps for itself never lead to a guest, and the
\* caller a guest is shown is the authorized one of a function not open to all.
THEOREM GuestsGetTheirOwn == Spec => []OnlyItsOwnReachesAGuest
<1>1. IInv => OnlyItsOwnReachesAGuest
  BY DEF IInv, RequestInv, UnderWay, CallerInv, PathIsAGuests, OnlyItsOwnReachesAGuest, Runs,
       Holding
<1> QED BY <1>1, Invariance, PTL

\* The goroutine of a connection captures for one request at a time, so what is
\* printed, by the building of a pool too, ends up in the log of its own request,
\* or of a later one to which the same instance was given with what was left there.
THEOREM OutputStaysApart == Spec => []OutputStaysOnInstance
<1>1. IInv => OutputStaysOnInstance
  BY DEF IInv, InstanceInv
<1> QED BY <1>1, Invariance, PTL

\* finalStatus recalls what WriteHeader made of the first status, so the
\* invocation log has the one that the client was sent.
THEOREM LogsTell == Spec => []LogMatchesAnswer
<1>1. IInv => LogMatchesAnswer
  BY DEF IInv, WriterInv
<1> QED BY <1>1, Invariance, PTL

\* A connection serves one request at a time, and its goroutine captures for
\* none but the one it runs: no panic or early answer leaves a capture behind.
THEOREM CapturesEnd == Spec => []CaptureInv
<1>1. IInv => CaptureInv
  BY DEF IInv
<1> QED BY <1>1, Invariance, PTL
=============================================================================
