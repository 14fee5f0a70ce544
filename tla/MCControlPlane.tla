--------------------------- MODULE MCControlPlane ---------------------------
(***************************************************************************)
(* An administrator and a second user, one function of the second user and *)
(* one of the workspace, two versions each.  Two calls ask for anything    *)
(* that makes a difference, a third one deploys to the workspace.          *)
(***************************************************************************)
EXTENDS ControlPlane, TLC

CONSTANTS adm, mem, c1, c2, c3

MCOwnerOf == "uf" :> mem @@ "wf" :> "workspace"

MCVersionOf == "u1" :> "uf" @@ "w1" :> "wf" @@ "w2" :> "wf"

\* Below the budget, past it with a small file after a large one, and a file past it.
MCFileSizes == "u1" :> <<1>> @@ "w1" :> <<2, 4, 1>> @@ "w2" :> <<3>>

Keep == [role |-> None, status |-> None]

Ask(u, via, cred, op, fn, ver) ==
    [user |-> u, via |-> via, cred |-> cred, own |-> TRUE, op |-> op, fn |-> fn, ver |-> ver,
     bad |-> FALSE, target |-> u, to |-> Keep]

Patch(u, via, cred, target, to) ==
    [Ask(u, via, cred, "patch", "uf", None) EXCEPT !.target = target, !.to = to]

Demote == [role |-> "member", status |-> None]
Disable == [role |-> None, status |-> "disabled"]

ByMember ==
    {Patch(mem, "rest", "token", mem, [role |-> "admin", status |-> None]),
     Patch(mem, "rest", "token", adm, Demote),
     Ask(mem, "rest", "token", "rollback", "wf", "w2"),
     Ask(mem, "rest", "cookie", "setenv", "wf", None),
     [Ask(mem, "rest", "cookie", "delete", "uf", None) EXCEPT !.own = FALSE],
     Ask(mem, "rest", "mcpToken", "get", "uf", None),
     Ask(mem, "rest", "token", "deploy", "uf", "u1"),
     [Ask(mem, "rest", "token", "dryrun", "wf", None) EXCEPT !.bad = TRUE],
     Ask(mem, "rest", "token", "dryrun", "wf", None),
     Ask(mem, "rest", "token", "listOwner", "wf", None),
     Ask(mem, "mcp", "mcpToken", "get", "wf", None),
     Ask(mem, "mcp", "mcpToken", "files", "uf", "w1"),
     Ask(mem, "mcp", "token", "files", "wf", None),
     Ask(mem, "mcp", "mcpToken", "delete", "wf", None),
     Ask(mem, "mcp", "mcpToken", "users", "uf", None),
     Ask(mem, "rest", "token", "auditLogs", "uf", None),
     Ask(mem, "mcp", "cookie", "list", "uf", None),
     Ask(mem, "mcp", "token", "invoke", "wf", None),
     Ask(mem, "dash", "cookie", "get", "wf", None),
     Ask(mem, "dash", "cookie", "logs", "wf", None),
     Ask(mem, "dash", "cookie", "list", "uf", None),
     Ask(mem, "dash", "token", "list", "uf", None)}

ByAdmin ==
    {Patch(adm, "rest", "token", mem, Demote),
     Patch(adm, "rest", "token", mem, Disable),
     Patch(adm, "dash", "cookie", adm, Demote),
     Ask(adm, "rest", "token", "delete", "wf", None),
     Ask(adm, "rest", "token", "rollback", "wf", "u1")}

MCRequests == [c \in Calls |->
    CASE c = c1 -> ByMember
      [] c = c2 -> ByAdmin
      [] c = c3 -> {Ask(adm, "rest", "token", "deploy", "wf", "w1")}]

Settings(mcd) == [memberCanDeploy |-> mcd, allowUserFunctions |-> mcd, mcpEnabled |-> TRUE]

Start(role, status, wsRole) ==
    [users   |-> (adm :> [role |-> "admin", status |-> "active"]) @@
                 (mem :> [role |-> role, status |-> status]),
     members |-> (adm :> None) @@ (mem :> wsRole),
     conf    |-> Settings(TRUE),
     active  |-> "uf" :> "u1" @@ "wf" :> "w1"]

MCStarts ==
    {Start("member", "active", None), Start("member", "active", "member"),
     Start("admin", "active", None), Start("member", "pending", None)}

MCMoves == [members |-> {None, "member", "admin"},
            conf |-> {Settings(FALSE), [Settings(TRUE) EXCEPT !.mcpEnabled = FALSE]}]

\* Sessions are opened before c2 and c3 begin, and the second one only after the
\* first; after that only c1's own may end.  An answered call is over at once, which
\* nobody can tell.  Settings change under c1 alone, and
\* c3 is there for the calls about "wf" in the workspace's name.
Busy(c) == call[c].pc \notin {"idle", "over"}

Writes(c) == Busy(c) /\ call[c].req.op \in {"rollback", "delete", "setenv"} /\ call[c].req.fn = "wf"

Apart ==
    /\ \A c \in Calls : call[c].pc = "done" => call'[c].pc = "over"
    /\ mcp' # mcp => \/ call[c2].pc = "idle" /\ call[c1].pc = "idle"
                     \/ sessions' = sessions /\ Busy(c1) /\ call[c1].server # None
                        /\ servers'[call[c1].server] # servers[call[c1].server]
    /\ conf' # conf \/ members' # members =>
          Busy(c1) /\ ~Busy(c2) /\ ~Busy(c3) /\ members'[adm] = members[adm]
    /\ call[c3].pc = "idle" /\ call'[c3].pc # "idle" =>
          Writes(c1) /\ Writes(c2) /\ changes = 0
    /\ call[c1].pc = "idle" /\ call'[c1].pc # "idle" /\ call'[c1].req.via # "mcp" =>
          \A s \in Servers : servers[s].st = "free"
    /\ call[c2].pc = "idle" /\ call'[c2].pc # "idle" => ~\E s \in Servers : servers[s].st = "opening"

MCSpec == Init /\ [][Next /\ Apart]_vars

Symmetry == Permutations(Servers)

=============================================================================
