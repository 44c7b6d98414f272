------------------------------ MODULE MCServer ------------------------------
(* Server on a small instance: one browser, one gateway request, one key of *)
(* each kind and the starting process, a second of two ticks and a session *)
(* of three.                                                               *)
EXTENDS Server, TLC, FiniteSets

CONSTANTS s1, s2, n1, n2, p1, p2, m1, m2, k1, d1, b1, q1, main

MCWorkers    == Browsers \union Requests \union {Starter}
MCSymmetry   ==
    Permutations(Secrets) \union Permutations(Names) \union Permutations(Passwords)
MCModelLists == {<<>>, <<m1, m2>>}
MCCalls ==
    {SignIn(n, p) : n \in Names, p \in Passwords} \union AdminCalls
        \union {Verdict(k, v) : k \in Keys, v \in Verdicts}
        \union {Record(k, q, d) : k \in Keys, q \in Requests, d \in Presented}
        \union {Found(k, ms) : k \in Keys, ms \in ModelLists}
        \union {Bootstrap(n, p) : n \in Names, p \in Passwords}

(* Bound: the two sides of the server are explored one at a time.  Either   *)
(* the clock stands and there has been one username, and anybody calls; or *)
(* time passes and usernames change, and only browsers and starts call.    *)
Configured == {admin} \union {r[2] : r \in {x \in work : x[1] = "admin_users"}}
OneSide ==
    \/ clock = 0 /\ Cardinality(Configured) = 1
    \/ /\ used \intersect Requests = {}
       /\ Idle(Starter) \/ call[Starter].op = "boot"
       /\ ~\E r \in disk : r[1] = "key_models" \/ r[3] = "cooling_down"
=============================================================================
