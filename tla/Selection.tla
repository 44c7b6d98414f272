----------------------------- MODULE Selection -----------------------------
(***************************************************************************)
(* What Selector.Select of selector/selector.go promises its caller: the   *)
(* key with the fewest requests in flight and, among those, the smallest   *)
(* id.  Gateway selects by it, Selector is the loop that finds the key.    *)
(***************************************************************************)
EXTENDS Integers

(* k is the key to select among ids, of which load are in flight.          *)
Selected(k, ids, load) ==
    /\ k \in ids
    /\ \A l \in ids : load[k] < load[l] \/ (load[k] = load[l] /\ k <= l)
=============================================================================
