------------------------------ MODULE MCGateway ------------------------------
(* Gateway on small instances; requests are alike.                         *)
EXTENDS Gateway, TLC

Alike == Permutations(Requests)
=============================================================================
