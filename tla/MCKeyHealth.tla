----------------------------- MODULE MCKeyHealth -----------------------------
(* KeyHealth on small instances: with two keys, one of which may be        *)
(* deleted, and a cap that the third failure in a row exceeds.             *)
EXTENDS KeyHealth
=============================================================================
