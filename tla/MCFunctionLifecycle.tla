------------------------- MODULE MCFunctionLifecycle -------------------------
(***************************************************************************)
(* Small instances of FunctionLifecycle for TLC.                           *)
(***************************************************************************)
EXTENDS FunctionLifecycle, TLC

\* The calls that take part in one behaviour: three deploys that race for the
\* quota; two deploys, a rollback and a delete; a deploy, two deletes, an env
\* change and an invocation; two deploys and a collector.
Casts ==
    { [d |-> 3, b |-> 0, x |-> 0, e |-> 0, i |-> 0, g |-> 0],
      [d |-> 2, b |-> 1, x |-> 1, e |-> 0, i |-> 0, g |-> 0],
      [d |-> 1, b |-> 0, x |-> 2, e |-> 1, i |-> 1, g |-> 0],
      [d |-> 2, b |-> 0, x |-> 0, e |-> 0, i |-> 0, g |-> 1] }

\* One set of calls for each cast, up to the choice of names.
Playing(cast) ==
    CHOOSE S \in SUBSET (Calls \cup Collectors) :
        /\ Cardinality(S \cap Deploys) = cast.d
        /\ Cardinality(S \cap Rollbacks) = cast.b
        /\ Cardinality(S \cap Deletes) = cast.x
        /\ Cardinality(S \cap EnvEdits) = cast.e
        /\ Cardinality(S \cap Invokes) = cast.i
        /\ Cardinality(S \cap Collectors) = cast.g

\* The others came before and changed nothing: a call that was refused, a
\* collector that found an empty store.  All these states are reachable.
MCInit ==
    \E cast \in Casts :
        /\ functions = [f \in Deploys |-> None]
        /\ names     = [n \in Names |-> None]
        /\ versions  = [v \in Deploys |-> None]
        /\ envs = {} /\ logs = {} /\ blobs = {}
        /\ warm = [v \in Deploys |-> "none"]
        /\ pc  = [c \in Calls |-> IF c \in Playing(cast) THEN "start" ELSE "failed"]
        /\ arg = [c \in Deploys \cup Rollbacks |-> None]
        /\ fn  = [c \in Calls |-> None]
        /\ old = [c \in Calls |-> None]
        /\ gc  = [g \in Collectors |->
                     IF g \in Playing(cast) THEN GcIdle ELSE [GcIdle EXCEPT !.at = "sweep"]]

MCSpec == MCInit /\ [][Next]_vars

\* Ids, names, users and bundle contents are interchangeable; so are the
\* calls of one kind.
Symmetry ==
    Permutations(Deploys) \cup Permutations(Deletes) \cup Permutations(Names)
        \cup Permutations(Users) \cup Permutations(Hashes) \cup Permutations(Descs)
=============================================================================
