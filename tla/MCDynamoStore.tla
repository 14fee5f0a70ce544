--------------------------- MODULE MCDynamoStore ----------------------------
(***************************************************************************)
(* DynamoStore on small instances: f1 and f2 are legacy functions that     *)
(* share a name, f3 and f4 are new ones of f1's workspace that both want   *)
(* another.  Each cast is a set of calls that run at once, on a new table  *)
(* or an old one.                                                          *)
(***************************************************************************)
EXTENDS DynamoStore, TLC

CONSTANTS f1, f2, f3, f4, v1, v2, u1, u2, s1, s2, s3, h1, h2, w1, g1, c1, c2, c3, c4

MCOwnerOf == (f1 :> w1) @@ (f2 :> u2) @@ (f3 :> w1) @@ (f4 :> w1)
MCNameOf == (f1 :> "a") @@ (f2 :> "a") @@ (f3 :> "b") @@ (f4 :> "b")
MCCreatorOf == (f1 :> u1) @@ (f2 :> Nil) @@ (f3 :> u1) @@ (f4 :> u1)
MCAge == (f1 :> 2) @@ (f2 :> 1) @@ (f3 :> 3) @@ (f4 :> 3)
MCGoogleSub == (u1 :> s1) @@ (u2 :> s2)

OpsOf(seq) == (c1 :> seq[1]) @@ (c2 :> seq[2]) @@ (c3 :> seq[3]) @@ (c4 :> seq[4])

OnOldTable == {
    <<"Create", "Create", "Delete", "Delete">>,
    <<"Create", "Update", "Delete", "SetEnv">>,
    <<"CreateVersion", "CreateVersion", "ActivateVersion", "Delete">>,
    <<"CreateVersion", "ActivateVersion", "Update", "Update">>,
    <<"UpdateUser", "UpdateUser", "CreateUser", "CreateUser">>,
    <<"CreateHandle", "CreateHandle", "RenameHandle", "RenameHandle">>}

OnNewTable == {
    <<"Create", "Create", "Delete", "Delete">>,
    <<"BootstrapFirstUser", "BootstrapFirstUser", "CreateUser", "UpdateUser">>,
    <<"CreateWorkspace", "AddMember", "UpdateWorkspace", "DeleteWorkspace">>,
    <<"CreateGrant", "Rotate", "Rotate", "DeleteGrant">>,
    <<"CreateGrant", "Rotate", "Rotate", "RevokeIfPrevious">>}

MCInit ==
    \/ \E seq \in OnOldTable : InitWith(OpsOf(seq), OldTable)
    \/ \E seq \in OnNewTable : InitWith(OpsOf(seq), NewTable)

MCSpec == MCInit /\ [][StoreNext]_storeVars
=============================================================================
