------------------------------ MODULE MCRelay ------------------------------
(* Relay on a small instance: two reports, one of a half and a total and   *)
(* one with a negative half, and a chunk whose usage cannot be decoded.    *)
EXTENDS Relay

Usage1 == [prompt |-> 2, completion |-> 0, total |-> 3]
Usage2 == [prompt |-> -1, completion |-> 1, total |-> 0]

MCChunks ==
    {[kind |-> "chunk", usage |-> u, readable |-> TRUE] : u \in {Usage1, Usage2}}
        \cup {[kind |-> "chunk", usage |-> Usage2, readable |-> FALSE]}
=============================================================================
