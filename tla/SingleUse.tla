----------------------------- MODULE SingleUse ------------------------------
(***************************************************************************)
(* What every one-time code of the server promises, whatever table it      *)
(* lives in: it is issued once, it is used at most once, and after a use   *)
(* or its expiry nobody can use it any more.  A rotating refresh secret is *)
(* a one-time code that is traded for the next one.                        *)
(***************************************************************************)
CONSTANTS
    Codes,   \* one-time codes
    Users    \* whoever may present one

VARIABLES
    fresh,   \* the codes that can still be used
    spent,   \* the codes that were used or have expired
    winner   \* code -> the set of those whose use of it succeeded

vars == <<fresh, spent, winner>>

Init == fresh = {} /\ spent = {} /\ winner = [k \in Codes |-> {}]

\* Codes are swept away when they have expired or burned by a wrong use,
\* several at once, and also just before a new one is issued.
Lose ==
    /\ fresh' \subseteq fresh
    /\ spent' = spent \cup (fresh \ fresh')
    /\ UNCHANGED winner

Issue(k) ==
    /\ k \notin fresh \cup spent
    /\ k \in fresh' /\ fresh' \subseteq fresh \cup {k}
    /\ spent' = spent \cup (fresh \ fresh')
    /\ UNCHANGED winner

Use(k) ==
    /\ k \in fresh
    /\ fresh' = fresh \ {k}
    /\ spent' = spent \cup {k}
    /\ \E u \in Users : winner' = [winner EXCEPT ![k] = {u}]

\* A use that is answered with a new code, in the same step.
Trade(k, j) ==
    /\ k \in fresh /\ j \notin fresh \cup spent
    /\ fresh' = (fresh \ {k}) \cup {j}
    /\ spent' = spent \cup {k}
    /\ \E u \in Users : winner' = [winner EXCEPT ![k] = {u}]

Next ==
    \/ Lose
    \/ \E k \in Codes : Issue(k) \/ Use(k)
    \/ \E k, j \in Codes : Trade(k, j)

Spec == Init /\ [][Next]_vars
=============================================================================
