----------------------------- MODULE Invocation -----------------------------
(***************************************************************************)
(* A request to the server and, when it is one for a function, its way to  *)
(* the guest and back: the middleware and the router (src/server/internal/ *)
(* server), the invoker (src/server/internal/invoke) with its              *)
(* authorization, the pool it builds, the response writer around the       *)
(* guest, and the capture of what the guest prints.                        *)
(*                                                                         *)
(* Requests run at once on connections, each a goroutine that serves one   *)
(* request after another.  Every read of the store is a step of its own:   *)
(* settings, members, users and the active version change in between.      *)
(* PoolManager has the details of the pools, EngineWorker those of an      *)
(* instance, Credentials those of who a caller is.  A pool is named by the *)
(* request that built it, and a request builds at most one.                *)
(***************************************************************************)
EXTENDS Integers, FiniteSets

CONSTANTS
    Reqs, Conns,
    Users,         \* whoever may call
    Vers,          \* the function's versions, ...
    ManifestVis,   \* ... the visibility each declares, or None
    Shapes,        \* request -> what it may look like
    Owner,         \* the owner of a function that is not a workspace's
    OrgChoices,    \* settings the organization may have
    WsChoices,     \* max_visibility a workspace may have, None among them
    Instances,     \* the instances of a pool
    MaxChanges,    \* bound on the changes to the store
    None

Visibilities == {"workspace", "org", "public"}
Shape == [host : {"control", "alias", "landing", "function", "other"}, path : STRING,
          get : BOOLEAN, html : BOOLEAN, cred : {"none", "bearer", "cookie"}, user : Users,
          big : BOOLEAN]
OrgRow == [max : Visibilities, default : Visibilities, exposes : BOOLEAN]

ASSUME CallerAssumption ==
    Owner \in Users /\ None \notin Users \cup Vers \cup Reqs \cup Conns \cup Instances
ASSUME ShapesAssumption == \A r \in Reqs : Shapes[r] \subseteq Shape
ASSUME SettingsAssumption ==
    /\ OrgChoices \subseteq OrgRow
    /\ WsChoices \subseteq Visibilities \cup {None}
    /\ ManifestVis \in [Vers -> Visibilities \cup {None}]
    /\ None \notin Visibilities \cup Nat

VARIABLES
    deploy,   \* [workspace: one owns the function; hosts: functions have their own]
    org,      \* [max, default: visibilities; exposes: callers are shown to guests]
    wsMax,    \* the workspace's max_visibility, or None
    members, status,
    active,   \* the active version, None before the first, "gone" without a function
    changes,  \* to these, so far
    warm,     \* version -> the pool that serves it, None if there is none
    bad,      \* the pools whose build has failed
    byConn,   \* invocationTracker.byGID: connection -> the request it captures for
    pc, shape, conn,
    ver,      \* request -> the version it was given
    vis,      \* request -> the visibility it goes by
    caller,   \* request -> who it is from, once that is known
    shown,    \* request -> the caller may be shown
    seen,     \* request -> the headers that the guest sees
    expired,  \* the requests whose deadline has passed
    iw,       \* request -> its invokeResponseWriter
    served,   \* request -> the pool it was given
    inst,     \* request -> the instance of it that it checked out
    past,     \* request -> those that had given theirs back by then
    out,      \* request -> whose output is in its capture
    sent,     \* request -> the status its client got
    ended,    \* request -> how the body ended for its client
    logged,   \* request -> the status in its invocation log
    calm      \* the requests since whose arrival nothing has changed

world == <<deploy, org, wsMax, members, status, active, changes>>
pools == <<warm, bad>>
answer == <<sent, ended, logged>>
who == <<ver, vis, caller, shown>>
input == <<shape, conn>>
instance == <<inst, past>>
guest == <<seen, iw, served, instance, out, byConn>>
vars == <<world, pools, input, pc, who, guest, expired, answer, calm>>

-----------------------------------------------------------------------------

\* Visibility: workspace < org < public.
Level(v) == CASE v = "workspace" -> 0 [] v = "org" -> 1 [] v = "public" -> 2

MinVisibility(S) == CHOOSE v \in S : \A w \in S : Level(v) <= Level(w)

NoWriter == [wrote |-> FALSE, swapped |-> FALSE, status |-> 0, oom |-> FALSE, length |-> FALSE]

Init ==
    /\ deploy \in [workspace : BOOLEAN, hosts : BOOLEAN]
    /\ org \in OrgChoices
    /\ wsMax \in WsChoices
    /\ members \in SUBSET Users
    /\ status \in [Users -> {"active", "barred"}]
    /\ active \in Vers \cup {None}
    /\ changes = 0
    /\ warm = [v \in Vers |-> None] /\ bad = {}
    /\ byConn = [c \in Conns |-> None]
    /\ pc = [r \in Reqs |-> "new"]
    /\ shape = [r \in Reqs |-> None] /\ conn = [r \in Reqs |-> None]
    /\ ver = [r \in Reqs |-> None] /\ vis = [r \in Reqs |-> None]
    /\ caller = [r \in Reqs |-> None] /\ shown = [r \in Reqs |-> FALSE]
    /\ seen = [r \in Reqs |-> {}] /\ expired = {}
    /\ iw = [r \in Reqs |-> NoWriter]
    /\ served = [r \in Reqs |-> None] /\ inst = [r \in Reqs |-> None]
    /\ past = [r \in Reqs |-> {}]
    /\ out = [r \in Reqs |-> {}]
    /\ sent = [r \in Reqs |-> None] /\ ended = [r \in Reqs |-> None]
    /\ logged = [r \in Reqs |-> None]
    /\ calm = {}

Goto(r, to) == pc' = [pc EXCEPT ![r] = to]

\* The client has its whole answer, and the connection takes the next request.
Answer(r, code) ==
    /\ sent' = [sent EXCEPT ![r] = code]
    /\ ended' = [ended EXCEPT ![r] = "clean"]
    /\ Goto(r, "done")
    /\ UNCHANGED logged

\* What other requests of the API, or the operators, do to the store.
Change ==
    /\ changes < MaxChanges
    /\ changes' = changes + 1 /\ calm' = {}
    /\ \/ org' \in OrgChoices \ {org} /\ UNCHANGED <<wsMax, members, status, active>>
       \/ wsMax' \in WsChoices \ {wsMax} /\ UNCHANGED <<org, members, status, active>>
       \/ \E u \in Users :
            /\ members' = IF u \in members THEN members \ {u} ELSE members \cup {u}
            /\ UNCHANGED <<org, wsMax, status, active>>
       \/ \E u \in Users :
            /\ status' = [status EXCEPT ![u] = IF @ = "active" THEN "barred" ELSE "active"]
            /\ UNCHANGED <<org, wsMax, members, active>>
       \/ active # "gone" /\ active' \in Vers \cup {"gone"} /\ UNCHANGED <<org, wsMax, members, status>>
    /\ UNCHANGED <<deploy, pools, input, pc, who, guest, expired, answer>>

-----------------------------------------------------------------------------
(***************************************************************************)
(* Middleware and routing.                                                 *)
(***************************************************************************)

\* First path segments that a subsystem of the server answers.
Reserved == {"api", "dashboard", "metrics", "auth", "dev", "mcp", "oauth", "well-known"}

\* loopbackAliasRedirectTarget: a browser's request on another name of the
\* control origin, /oauth/authorize included.
Aliased(s) == s.host = "alias" /\ s.path \notin {"api", "mcp", "well-known", "oauth"}

\* serveControl: two segments that are not the server's name an owner and a
\* function, which /.funcbox/ never does.
Control(s) ==
    CASE s.path = "root" -> "redirect"
      [] s.path \in Reserved \cup {"healthz", "authorize"} -> "platform"
      [] s.path = "assets" -> "notImplemented"
      [] s.path = "guest" -> "invoke"
      [] OTHER -> "notFound"

\* Mutant: /.funcbox/ is reserved for the callback only.
ByHostOpen(s) ==
    CASE s.host = "control" -> Control(s)
      [] s.host = "landing" -> IF s.get THEN "redirect" ELSE "misdirected"
      [] s.host = "function" /\ s.path = "callback" -> "platform"
      [] s.host = "function" /\ s.path # "callback" -> "invoke"
      [] OTHER -> "misdirected"

\* serveByHost: on a function's host, everything but /.funcbox/ is the guest's;
\* another name of the control host counts for none of them.
ByHost(s) ==
    CASE s.host = "control" -> Control(s)
      [] s.host = "landing" -> IF s.get THEN "redirect" ELSE "misdirected"
      [] s.host = "function" /\ s.path = "callback" -> "platform"
      [] s.host = "function" /\ s.path = "funcbox" -> "notFound"
      [] s.host = "function" /\ s.path \notin {"callback", "funcbox"} -> "invoke"
      [] OTHER -> "misdirected"

Route(s) ==
    IF Aliased(s) THEN "redirect" ELSE IF deploy.hosts THEN ByHost(s) ELSE Control(s)

CodeOf == [redirect |-> 302, platform |-> 200, notFound |-> 404, misdirected |-> 421,
           notImplemented |-> 501]

\* A request comes in on a connection that is not serving one.
Arrive(r, c, s) ==
    /\ pc[r] = "new" /\ \A q \in Reqs : conn[q] = c => pc[q] = "done"
    /\ shape' = [shape EXCEPT ![r] = s]
    /\ conn' = [conn EXCEPT ![r] = c]
    /\ calm' = calm \cup {r}
    /\ IF Route(s) = "invoke" THEN Goto(r, "resolve") /\ UNCHANGED answer
       ELSE Answer(r, CodeOf[Route(s)])
    /\ UNCHANGED <<world, pools, who, guest, expired>>

-----------------------------------------------------------------------------
(***************************************************************************)
(* serveFunction, up to the guest.                                         *)
(***************************************************************************)

\* Serve and ServeByName find the function; a body whose declared length is
\* too large is refused before anything else.
Resolve(r) ==
    /\ pc[r] = "resolve"
    /\ ver' = [ver EXCEPT ![r] = active]
    /\ IF active = "gone" THEN Answer(r, 404)
       ELSE IF shape[r].big THEN Answer(r, 413)
       ELSE IF active = None THEN Answer(r, 404)
       ELSE Goto(r, "version") /\ UNCHANGED answer
    /\ UNCHANGED <<world, pools, input, vis, caller, shown, guest, expired, calm>>

\* The version's row goes with its function.
LoadVersion(r) ==
    /\ pc[r] = "version"
    /\ IF active = "gone" THEN Answer(r, 500) ELSE Goto(r, "org") /\ UNCHANGED answer
    /\ UNCHANGED <<world, pools, input, who, guest, expired, calm>>

\* resolveVisibility reads the organization ...
ReadOrg(r) ==
    LET declared == IF ManifestVis[ver[r]] = None THEN org.default ELSE ManifestVis[ver[r]] IN
    /\ pc[r] = "org"
    /\ vis' = [vis EXCEPT ![r] = MinVisibility({declared, org.max})]
    /\ Goto(r, IF deploy.workspace THEN "workspace" ELSE "caller")
    /\ UNCHANGED <<world, pools, input, ver, caller, shown, guest, expired, answer, calm>>

\* Mutant: the workspace may only narrow what the organization has left open.
ReadWorkspaceWidens(r) ==
    /\ pc[r] = "workspace"
    /\ vis' = [vis EXCEPT ![r] = IF wsMax = None THEN @ ELSE wsMax]
    /\ Goto(r, "caller")
    /\ UNCHANGED <<world, pools, input, ver, caller, shown, guest, expired, answer, calm>>

\* ... and the function's workspace.
ReadWorkspace(r) ==
    /\ pc[r] = "workspace"
    /\ vis' = [vis EXCEPT ![r] = IF wsMax = None THEN @ ELSE MinVisibility({@, wsMax})]
    /\ Goto(r, "caller")
    /\ UNCHANGED <<world, pools, input, ver, caller, shown, guest, expired, answer, calm>>

\* wantsHTMLRedirect.
Browses(r) == shape[r].get /\ shape[r].html

\* ResolveInvokeCaller: a cookie counts on GET and HEAD only.
Presents(r) == shape[r].cred = "bearer" \/ (shape[r].cred = "cookie" /\ shape[r].get)

\* authorize: a public function asks for nobody; who shows nothing is sent to
\* log in, or told how to; who is known and barred is refused, never redirected.
Identify(r) ==
    LET u == shape[r].user IN
    /\ pc[r] = "caller"
    /\ IF vis[r] = "public" THEN Goto(r, "handler") /\ UNCHANGED <<caller, answer>>
       ELSE IF ~Presents(r)
       THEN IF Browses(r)
            THEN Goto(r, "login") /\ UNCHANGED <<caller, answer>>
            ELSE Answer(r, 401) /\ UNCHANGED caller
       ELSE IF status[u] = "barred" THEN Answer(r, 403) /\ UNCHANGED caller
       ELSE caller' = [caller EXCEPT ![r] = u] /\ Goto(r, "member") /\ UNCHANGED answer
    /\ UNCHANGED <<world, pools, input, ver, vis, shown, guest, expired, calm>>

\* The browser is back from the login with a cookie, whoever the user is now.
Return(r) ==
    /\ pc[r] = "login"
    /\ shape' = [shape EXCEPT ![r].cred = "cookie"]
    /\ Goto(r, "resolve")
    /\ UNCHANGED <<world, pools, conn, who, guest, expired, answer, calm>>

\* isWorkspaceMember: a user's own function is that user's.
Belongs(u) == IF deploy.workspace THEN u \in members ELSE u = Owner

CheckMember(r) ==
    /\ pc[r] = "member"
    /\ IF vis[r] = "workspace" /\ ~Belongs(caller[r]) THEN Answer(r, 403)
       ELSE Goto(r, "expose") /\ UNCHANGED answer
    /\ UNCHANGED <<world, pools, input, who, guest, expired, calm>>

\* callerIdentityExposed reads the organization once more.
Expose(r) ==
    /\ pc[r] = "expose"
    /\ shown' = [shown EXCEPT ![r] = org.exposes]
    /\ Goto(r, "handler")
    /\ UNCHANGED <<world, pools, input, ver, vis, caller, guest, expired, answer, calm>>

\* Where a request has an instance.
Holding == {"body", "guest", "reply", "stream", "write"}

\* The deadline that serveFunction sets once the request is authorized.
Expire(r) ==
    /\ pc[r] \in {"handler", "build", "wait", "begin", "after"} \cup Holding /\ r \notin expired
    /\ expired' = expired \cup {r}
    /\ UNCHANGED <<world, pools, input, pc, who, guest, answer, calm>>

\* Mutant: the captures are told apart by the pool.
CurrentOfPool(r) ==
    LET others == {q \in Reqs : pc[q] \in Holding /\ served[q] = served[r]} IN
    IF others = {} THEN None ELSE CHOOSE q \in others : TRUE

\* tracker.current, on the goroutine of r.
Current(r) == byConn[conn[r]]

\* What code of q prints on the goroutine of r goes to the capture of the
\* goroutine, if there is one.
Prints(r, q) == IF Current(r) = None THEN out ELSE [out EXCEPT ![Current(r)] = @ \cup {q}]

\* HandlerFor finds the version's pool, which may still be building ...
Find(r) ==
    /\ pc[r] = "handler" /\ warm[ver[r]] # None
    /\ served' = [served EXCEPT ![r] = warm[ver[r]]]
    /\ Goto(r, "wait")
    /\ UNCHANGED <<world, pools, input, who, seen, iw, instance, out, byConn, expired, answer, calm>>

\* ... or builds one, which the requests that come now wait for.
Build(r) ==
    /\ pc[r] = "handler" /\ warm[ver[r]] = None
    /\ warm' = [warm EXCEPT ![ver[r]] = r]
    /\ served' = [served EXCEPT ![r] = r]
    /\ Goto(r, "build")
    /\ UNCHANGED <<world, bad, input, who, seen, iw, instance, out, byConn, expired, answer, calm>>

\* buildPool runs the module's top level on this goroutine, under no deadline.
\* If that, the bundle or a secret is bad, the pool keeps the error.
BuildEnds(r) ==
    /\ pc[r] = "build"
    /\ bad' \in {bad, bad \cup {r}}
    /\ out' = Prints(r, r)
    /\ Goto(r, "wait")
    /\ UNCHANGED <<world, warm, input, who, seen, iw, served, instance, byConn, expired, answer, calm>>

\* The pool is ready, or its build has failed.
Ready(r) ==
    /\ pc[r] = "wait" /\ pc[served[r]] # "build"
    /\ IF served[r] \in bad THEN Answer(r, 500) ELSE Goto(r, "begin") /\ UNCHANGED answer
    /\ UNCHANGED <<world, pools, input, who, guest, expired, calm>>

\* The deadline passes before HandlerFor has the pool, or is looked at first.
WaitExpires(r) ==
    /\ pc[r] = "wait" /\ r \in expired
    /\ Answer(r, 500)
    /\ UNCHANGED <<world, pools, input, who, guest, expired, calm>>

\* Credentials and reserved headers are stripped, the caller's address is
\* added, and the capture begins; the request gets a free instance.
Begin(r) ==
    /\ pc[r] = "begin"
    /\ \E i \in Instances :
          /\ \A q \in Reqs : pc[q] \in Holding /\ served[q] = served[r] => inst[q] # i
          /\ inst' = [inst EXCEPT ![r] = i]
    /\ past' = [past EXCEPT ![r] = {q \in Reqs : pc[q] \in {"after", "done"}}]
    /\ seen' = [seen EXCEPT ![r] = IF caller[r] # None /\ shown[r] THEN {caller[r]} ELSE {}]
    /\ byConn' = [byConn EXCEPT ![conn[r]] = r]
    /\ Goto(r, "body")
    /\ UNCHANGED <<world, pools, input, who, iw, served, out, expired, answer, calm>>

-----------------------------------------------------------------------------
(***************************************************************************)
(* The guest, the response writer and what serveFunction does after.       *)
(***************************************************************************)

\* Whose code may run on the instance of r: its own, and what requests that
\* have given the same instance back left pending there.
Resident(r) ==
    {r} \cup {q \in Reqs : served[q] = served[r] /\ inst[q] = inst[r] /\ pc[q] \in {"after", "done"}}

\* Guest code prints: boundedBuffer.Write of the capture.
Console(r) ==
    /\ pc[r] \in {"guest", "reply", "stream"}
    /\ \E q \in Resident(r) : out' = Prints(r, q)
    /\ UNCHANGED <<world, pools, input, pc, who, seen, iw, served, instance, byConn, expired, answer,
                   calm>>

\* invokeResponseWriter.WriteHeader: a 500 after the deadline becomes a 504.
WriteHeader(r, code, oom, length) ==
    LET late == code = 500 /\ r \in expired IN
    /\ iw' = [iw EXCEPT ![r] = [wrote |-> TRUE, swapped |-> late, status |-> code, oom |-> oom,
                                length |-> length]]
    /\ sent' = [sent EXCEPT ![r] = IF late THEN 504 ELSE code]

\* The pool has no free instance until the deadline.
NoWorker(r) ==
    /\ pc[r] = "begin" /\ r \in expired
    /\ byConn' = [byConn EXCEPT ![conn[r]] = r]
    /\ WriteHeader(r, 503, FALSE, TRUE)
    /\ Goto(r, "after")
    /\ UNCHANGED <<world, pools, input, who, seen, served, instance, out, expired, ended, logged, calm>>

\* The worker writes a response whole, and gives the instance back.
Reply(r, code, oom) ==
    /\ (oom => code = 500)
    /\ WriteHeader(r, code, oom, TRUE)
    /\ Goto(r, "after")
    /\ UNCHANGED <<world, pools, input, who, seen, served, instance, out, byConn, expired, ended, logged,
                   calm>>

\* The client does not send its body, or too much of it.
BodyFails(r) == pc[r] = "body" /\ Reply(r, 413, FALSE)

\* The handler throws, runs out of memory or never settles.
HandlerFails(r, oom) == pc[r] = "guest" /\ Reply(r, 500, oom)

\* The watchdog interrupts the handler, and the worker writes a 500.
Interrupt(r) == r \in expired /\ HandlerFails(r, FALSE)

\* The body has been read and the handler runs; the handler has settled, and
\* the methods of its Response are called; a blocked write of a stream is over.
GoesOn(r) ==
    /\ \/ pc[r] = "body" /\ Goto(r, "guest")
       \/ pc[r] = "guest" /\ Goto(r, "reply")
       \/ pc[r] = "write" /\ Goto(r, "stream")
    /\ UNCHANGED <<world, pools, input, who, guest, expired, answer, calm>>

\* A Response with a buffered body, or none that can be used.
Respond(r, code, oom) == pc[r] = "reply" /\ Reply(r, code, oom)

\* A streamed response starts, with a length of the guest's or in chunks.  Its
\* first chunk may speak of memory as an answer to exhaustion does; a guest
\* that runs out of memory later only fails its stream.
Stream(r, code, oom, length) ==
    /\ pc[r] = "reply" /\ (oom => code = 500)
    /\ WriteHeader(r, code, oom, length)
    /\ Goto(r, "stream")
    /\ UNCHANGED <<world, pools, input, who, seen, served, instance, out, byConn, expired, ended, logged,
                   calm>>

\* A chunk is written, which blocks as long as the client does not read; the
\* last one has been.
StreamGoesOn(r) ==
    /\ pc[r] = "stream" /\ (Goto(r, "write") \/ Goto(r, "after"))
    /\ UNCHANGED <<world, pools, input, who, guest, expired, answer, calm>>

\* Mutant: only what the guest does ends a stream.
StreamCutByGuest(r) ==
    /\ pc[r] = "stream" /\ r \notin expired
    /\ byConn' = [byConn EXCEPT ![conn[r]] = None]
    /\ ended' = [ended EXCEPT ![r] = IF iw[r].length THEN "cut" ELSE "clean"]
    /\ Goto(r, "done")
    /\ UNCHANGED <<world, pools, input, who, seen, iw, served, instance, out, expired, sent, logged, calm>>

\* A stream that fails, or outlives the deadline, panics with ErrAbortHandler:
\* the deferred calls end the capture, the rest of serveFunction is skipped,
\* and recoverMiddleware recovers.  Its 500 comes after the header, and
\* net/http ends the body as that of any handler that returns: a body in
\* chunks properly, one that is short of its length by closing.
StreamCut(r) ==
    /\ pc[r] = "stream"
    /\ byConn' = [byConn EXCEPT ![conn[r]] = None]
    /\ ended' = [ended EXCEPT ![r] = IF iw[r].length THEN "cut" ELSE "clean"]
    /\ Goto(r, "done")
    /\ UNCHANGED <<world, pools, input, who, seen, iw, served, instance, out, expired, sent, logged, calm>>

isLikelyOOM(r) == iw[r].status = 500 /\ iw[r].oom

\* Mutant: the deadline is looked at again when the log is written.
finalStatusNow(r) ==
    IF iw[r].status = 500 /\ r \in expired THEN 504 ELSE IF iw[r].wrote THEN iw[r].status ELSE 200

finalStatus(r) ==
    IF iw[r].swapped THEN 504 ELSE IF iw[r].wrote THEN iw[r].status ELSE 200

\* serveFunction invalidates the version's pool if memory ran out, appends the
\* log and ends the capture.
After(r) ==
    /\ pc[r] = "after"
    /\ warm' = IF isLikelyOOM(r) THEN [warm EXCEPT ![ver[r]] = None] ELSE warm
    /\ logged' = [logged EXCEPT ![r] = finalStatus(r)]
    /\ ended' = [ended EXCEPT ![r] = "clean"]
    /\ byConn' = [byConn EXCEPT ![conn[r]] = None]
    /\ Goto(r, "done")
    /\ UNCHANGED <<world, bad, input, who, seen, iw, served, instance, out, expired, sent, calm>>

-----------------------------------------------------------------------------

\* The steps the server takes for a request by itself.
Step(r) ==
    \/ Resolve(r) \/ LoadVersion(r) \/ ReadOrg(r) \/ ReadWorkspace(r)
    \/ Identify(r) \/ CheckMember(r) \/ Expose(r)
    \/ Find(r) \/ Build(r) \/ Ready(r) \/ WaitExpires(r) \/ Begin(r)
    \/ NoWorker(r) \/ Interrupt(r) \/ After(r)

\* What a stream does once the deadline has passed.
Cut(r) == r \in expired /\ StreamCut(r)

\* What the guest and the client do.
Guest(r) ==
    \/ BuildEnds(r) \/ Console(r) \/ BodyFails(r) \/ GoesOn(r)
    \/ \E oom \in BOOLEAN : HandlerFails(r, oom)
    \/ \E code \in {200, 500}, oom \in BOOLEAN : Respond(r, code, oom)
    \/ \E code \in {200, 500}, oom, length \in BOOLEAN : Stream(r, code, oom, length)
    \/ StreamGoesOn(r) \/ StreamCut(r)

Next ==
    \/ Change
    \/ \E r \in Reqs, c \in Conns : \E s \in Shapes[r] : Arrive(r, c, s)
    \/ \E r \in Reqs : Step(r) \/ Cut(r) \/ Guest(r) \/ Expire(r) \/ Return(r)

\* A goroutine goes on, a deadline passes and is looked at, between the writes
\* of a stream too (hence SF); a browser that was redirected comes back.  The
\* guest is owed nothing, nor is the client.
Fairness ==
    \A r \in Reqs : /\ WF_vars(Step(r)) /\ SF_vars(Cut(r))
                    /\ WF_vars(Expire(r)) /\ WF_vars(Return(r))

Spec == Init /\ [][Next]_vars /\ Fairness

-----------------------------------------------------------------------------
(***************************************************************************)
(* Properties.                                                             *)
(***************************************************************************)

Runs == Holding \cup {"after"}

PCs == {"new", "resolve", "version", "org", "workspace", "caller", "login", "member", "expose",
        "handler", "build", "wait", "begin", "done"} \cup Runs
Codes == {200, 302, 401, 403, 404, 413, 421, 500, 501, 503, 504}
Writer == [wrote : BOOLEAN, swapped : BOOLEAN, status : {0, 200, 413, 500, 503}, oom : BOOLEAN,
           length : BOOLEAN]

\* Every register has its type.
TypeOK ==
    /\ deploy \in [workspace : BOOLEAN, hosts : BOOLEAN]
    /\ org \in OrgChoices /\ wsMax \in WsChoices
    /\ members \subseteq Users /\ status \in [Users -> {"active", "barred"}]
    /\ active \in Vers \cup {None, "gone"} /\ changes \in Nat
    /\ warm \in [Vers -> Reqs \cup {None}] /\ bad \subseteq Reqs
    /\ byConn \in [Conns -> Reqs \cup {None}]
    /\ pc \in [Reqs -> PCs]
    /\ shape \in [Reqs -> Shape \cup {None}] /\ conn \in [Reqs -> Conns \cup {None}]
    /\ ver \in [Reqs -> Vers \cup {None, "gone"}]
    /\ vis \in [Reqs -> Visibilities \cup {None}]
    /\ caller \in [Reqs -> Users \cup {None}] /\ shown \in [Reqs -> BOOLEAN]
    /\ seen \in [Reqs -> SUBSET Users] /\ expired \subseteq Reqs
    /\ iw \in [Reqs -> Writer] /\ served \in [Reqs -> Reqs \cup {None}]
    /\ inst \in [Reqs -> Instances \cup {None}] /\ past \in [Reqs -> SUBSET Reqs]
    /\ out \in [Reqs -> SUBSET Reqs]
    /\ sent \in [Reqs -> Codes \cup {None}] /\ logged \in [Reqs -> Codes \cup {None}]
    /\ ended \in [Reqs -> {"clean", "cut", None}]
    /\ calm \subseteq Reqs

\* Who may call the function as things are, by the definition of visibility.
MayCall(r) ==
    LET declared == IF ManifestVis[ver[r]] = None THEN org.default ELSE ManifestVis[ver[r]]
        limits == {Level(declared), Level(org.max)}
                  \cup (IF deploy.workspace /\ wsMax # None THEN {Level(wsMax)} ELSE {})
        open(n) == \A k \in limits : k >= n
        u == shape[r].user
    IN \/ open(2)
       \/ Presents(r) /\ status[u] = "active" /\ (open(1) \/ Belongs(u))

\* While nothing changes, a request gets to the guest exactly if its caller
\* may call the function: the decision is put together from five reads, of
\* which the default of the manifest, both maxima, the user and the members
\* all count.
AdmissionIsExact ==
    \A r \in calm :
        /\ pc[r] \in Runs => MayCall(r)
        /\ pc[r] = "done" /\ sent[r] \in {401, 403} => ~MayCall(r)

\* A guest gets what is meant for it only.  A path that the server keeps for
\* itself never leads to a guest: on a function's host that is /.funcbox/,
\* elsewhere all but the functions' own, and so is every other host.  And the
\* caller that a guest is shown is the one that was authorized, while the
\* organization exposed callers, of a function that is not open to all.
OnlyItsOwnReachesAGuest ==
    \A r \in Reqs :
        /\ pc[r] \in Runs =>
              IF deploy.hosts /\ shape[r].host = "function" THEN shape[r].path \notin {"callback", "funcbox"}
              ELSE shape[r].path = "guest" /\ (deploy.hosts => shape[r].host = "control")
        /\ seen[r] # {} => seen[r] = {caller[r]} /\ caller[r] # None /\ shown[r] /\ vis[r] # "public"

\* However requests share pools, instances and connections, a log never has
\* output of a request that runs at the same time: besides its own only that
\* of requests which had given back the very instance when this one got it.
OutputStaysOnInstance ==
    \A r \in Reqs : \A q \in out[r] \ {r} :
        q \in past[r] /\ served[q] = served[r] /\ inst[q] = inst[r]

\* What the comment on invocationTracker says: a log has the output of the
\* request that produced it.  It is not so on an instance that is used again.
OutputIsOwn == \A r \in Reqs : out[r] \subseteq {r}

\* The log has the status that the client was sent, whichever of a late error,
\* the deadline and the end of a stream comes first.
LogMatchesAnswer == \A r \in Reqs : logged[r] # None => logged[r] = sent[r]

\* Every request is answered, though the guest may hang or stream for ever (the
\* deadline is what frees its instance) and though a browser always comes back
\* from the login: one whose user is barred would otherwise go round for ever.
\* One that is not stays where the deadline is not looked at: its own build,
\* a client that does not send or read, a method of the guest's Response.  It
\* never waits for ever for another request.
EveryRequestIsAnswered ==
    \A r \in Reqs :
        pc[r] # "new" ~> (pc[r] = "done" \/ [](pc[r] \in {"build", "body", "reply", "write"}))

\* A client can tell a response that was cut off from a complete one ("the
\* only honest failure signal left is aborting the connection so the client
\* sees truncation instead of a clean end").
CutStreamsAreSeen ==
    \A r \in Reqs : pc[r] = "done" /\ iw[r].wrote /\ logged[r] = None => ended[r] = "cut"
=============================================================================
