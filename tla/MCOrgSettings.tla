---------------------------- MODULE MCOrgSettings ----------------------------
(***************************************************************************)
(* Small instances of OrgSettings for TLC.                                 *)
(***************************************************************************)
EXTENDS OrgSettings, TLC

CONSTANTS
    h1, h2,
    Casts    \* the sets of calls that take part in one behaviour

VARIABLE cast

\* One policy of each mode, and a manifest that allows both hosts by name.
MCHosts == {h1, h2}
MCPolicies ==
    {DenyAll, AllowAll, [mode |-> "allowlist", allow |-> {h1}]}
MCManifest == [mode |-> "allowlist", allow |-> {h1, h2}]

\* Two patches of one row go through all generations, with two policies and
\* open mode left alone; a patch with other company through two generations.
Overlapping == Cardinality(cast \cap OrgPatches) > 1 \/ Cardinality(cast \cap WsPatches) > 1
Bounded(c) ==
    IF Overlapping
    THEN loc'[c].new.fetch \in {DenyAll, AllowAll} /\ (c \in OrgPatches => ~loc'[c].new.open)
    ELSE loc'[c].new.gen <= 2

\* The other callers never come.
MCInit == Init /\ cast \in Casts
MCNext ==
    /\ Next
    /\ \A c \in Calls \ cast : pc'[c] = pc[c]
    /\ \A c \in OrgPatches \cup WsPatches : pc'[c] # "idle" => Bounded(c)
    /\ UNCHANGED cast
MCSpec == MCInit /\ [][MCNext]_<<vars, cast>>

\* Users are interchangeable, and so are the resolvers.
Symmetry == Permutations(Users) \cup Permutations(Resolvers)
=============================================================================
