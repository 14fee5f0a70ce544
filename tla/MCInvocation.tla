---------------------------- MODULE MCInvocation ----------------------------
(***************************************************************************)
(* A request of any kind for one function, beside a second plain one, in   *)
(* two set-ups: a workspace's function on a host of its own, and a user's  *)
(* under the one origin.                                                   *)
(***************************************************************************)
EXTENDS Invocation

CONSTANTS Any, Other

Undeclared == [v \in Vers |-> None]

OpenOrg == [max |-> "public", default |-> "public", exposes |-> TRUE]

MCOrgChoices ==
    {OpenOrg, [max |-> "org", default |-> "workspace", exposes |-> FALSE]}

Request(host, path) ==
    [host |-> host, path |-> path, get |-> TRUE, html |-> FALSE, cred |-> "none",
     user |-> Other, big |-> FALSE]

\* Where requests go ...
Routed ==
    {Request(h, p) : h \in {"control", "alias", "landing", "function", "other"},
                     p \in {"guest", "callback", "funcbox"}}
    \cup {Request("control", p) : p \in Reserved \cup {"healthz", "authorize", "assets", "one", "root"}}
    \cup {Request("alias", "api"), [Request("landing", "guest") EXCEPT !.get = FALSE]}

\* ... and from whom.
Call(c, u) == [Request("function", "guest") EXCEPT !.cred = c, !.user = u]

Called ==
    {Call("bearer", Owner), Call("bearer", Other), Call("cookie", Other)}
    \cup {[Call(c, Other) EXCEPT !.html = TRUE] : c \in {"none", "cookie"}}
    \cup {[Call(c, Other) EXCEPT !.get = FALSE] : c \in {"none", "cookie"}}
    \cup {[Request("function", "guest") EXCEPT !.big = TRUE]}

MCShapes ==
    [r \in Reqs |-> IF r = Any THEN Routed \cup Called ELSE {Request("control", "guest")}]

MCInit ==
    /\ Init
    /\ deploy.workspace = deploy.hosts
    /\ members \subseteq {Other} /\ status[Owner] = "active"
    /\ ~deploy.workspace => members = {} /\ wsMax = None

\* A plain set-up: a request like the second one, to a function that is open
\* to all, and nothing has changed.
Plain ==
    /\ ~deploy.hosts /\ org = OpenOrg /\ active \in Vers /\ status[Other] = "active"
    /\ changes = 0 /\ shape[Any] \in {None, Request("control", "guest")}

FirstConn == CHOOSE c \in Conns : TRUE
FirstInstance == CHOOSE i \in Instances : TRUE

\* The second request comes only in a plain set-up, and nothing changes once it
\* is there: what the two share are the pools, their instances and the
\* connections.  Only in such a set-up, and only the first one, tries all that a
\* response may be.  Connections and instances are taken in order, and the
\* store changes only before the pool, after which nobody reads it.
Apart ==
    /\ \A r \in Reqs \ {Any} : pc'[r] # "new" =>
        /\ Plain' /\ ~iw'[r].oom /\ (iw'[r].wrote => iw'[r].length)
    /\ iw'[Any].oom \/ (iw'[Any].wrote /\ ~iw'[Any].length) => Plain'
    /\ changes' # changes => pc[Any] \notin {"handler", "build", "wait", "begin", "done"} \cup Runs
    /\ conn'[Any] \in {None, FirstConn}
    /\ \A r \in Reqs : inst[r] = None => inst'[r] \in {None, FirstInstance} \cup
                                            (IF \E q \in Reqs : inst[q] = FirstInstance THEN Instances ELSE {})

MCSpec == MCInit /\ [][Next /\ Apart]_vars /\ Fairness
=============================================================================
