----------------------------- MODULE MCRegistry -----------------------------
(* Registry on small instances: one or two credentials, each offering a    *)
(* model of its own and one of them also the model of the other.           *)
EXTENDS Registry, TLC

CONSTANTS a, b, m1, m2

OneOffer  == a :> {m1}
TwoOffers == a :> {m1} @@ b :> {m1, m2}

EveryPost   == [enabled : BOOLEAN, cred : Creds]
EveryPut    == Patch
EnabledPost == [enabled : {TRUE}, cred : Creds]
Toggles     == [enabled : BOOLEAN, cred : {Same}]
NoPuts      == {}

Alike == Permutations(Procs)
=============================================================================
