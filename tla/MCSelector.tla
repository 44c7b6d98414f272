----------------------------- MODULE MCSelector -----------------------------
(* Selector on every list of up to three candidates with ids and loads     *)
(* from small sets: enough for each comparison to go either way twice.     *)
EXTENDS Selector

Some  == [id : 1 .. 3, cooling : BOOLEAN, inflight : 0 .. 2]
Lists == UNION {[1 .. n -> Some] : n \in 0 .. 3}
=============================================================================
