---------------------------- MODULE MCCredentials ---------------------------
(***************************************************************************)
(* Small instances of Credentials for TLC: each cast is the endpoints of   *)
(* the requests of one behaviour, which come in any order.                 *)
(***************************************************************************)
EXTENDS Credentials, Sequences, TLC

CONSTANTS u1, u2, a1

MCAppOwner == [a \in {a1} |-> u1]

CastCodes == <<"login", "authorize", "exchange", "exchange", "mint">>
CastDevices == <<"login", "authorize", "exchange", "mint", "device">>
CastTokens == <<"login", "authorize", "exchange", "mint", "invoke">>
CastCookies == <<"login", "start", "callback", "callback", "invoke">>
CastMints == <<"login", "authorize", "exchange", "mint", "mint">>
CastSessions == <<"login", "device", "logout", "invoke">>

Play(cast) == InitWith([r \in Reqs |-> IF r <= Len(cast) THEN cast[r] ELSE None])

InitRaces == \E c \in {CastCodes, CastDevices, CastTokens, CastCookies, CastMints, CastSessions} : Play(c)
SpecRaces == InitRaces /\ [][Next]_vars

=============================================================================
