----------------------------- MODULE MCAccounts -----------------------------
(***************************************************************************)
(* Small instances of Accounts for TLC.                                    *)
(***************************************************************************)
EXTENDS Accounts, TLC

CONSTANTS
    e1, e2, h1, h2, h3, g1, g2, o1, o2,
    Casts,   \* the sets of calls that take part in one behaviour
    Alike    \* the logins that take part in more than one of them

VARIABLES
    moves,   \* whether addresses change
    trips    \* how many more logins are started, where links are confirmed

\* Both addresses sanitize to the same id, whose suffixed forms are tried next;
\* the first GitHub user is called like it, the second has a name of its own.
MCCandidates == [e \in {e1, e2} |-> <<h1, h2, h3>>]
MCUserName == [s \in {g1, g2} |-> IF s = g1 THEN h1 ELSE h3]

\* Only o1 and g1 change their address, in the casts that say so.  In those with
\* links one login of each makes an account and an offer, and every other login
\* of the cast can only confirm it.
MCInit ==
    /\ \E cast \in Casts :
         /\ InitWith(cast) /\ moves = ("moves" \in cast)
         /\ trips = IF "links" \in cast THEN 2 ELSE None
    /\ mail[g1] = e1 /\ mail[o1] = e1 /\ mail[g2] = e2 /\ mail[o2] = e2
MCNext ==
    /\ Next /\ UNCHANGED moves
    /\ mail'[g2] = e2 /\ mail'[o2] = e2 /\ (moves \/ mail' = mail)
    /\ IF trips = None THEN UNCHANGED trips
       ELSE /\ trips' = trips - Cardinality({l \in Logins : pc[l] = "start" /\ pc'[l] = "away"})
            /\ trips' >= 0 /\ \A l \in Logins : who'[l] \in {g1, o1, None}
MCSpec == MCInit /\ [][MCNext]_<<vars, moves, trips>>

\* The logins are interchangeable, and these are all that matter in most casts.
Symmetry == Permutations(Alike)
=============================================================================
