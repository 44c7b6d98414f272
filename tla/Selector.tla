------------------------------ MODULE Selector ------------------------------
(***************************************************************************)
(* Selector.Select of selector/selector.go: one pass over the candidates   *)
(* that StateStore.Candidates returned, keeping the best one so far.  A    *)
(* candidate that cools down is passed over; fewer requests in flight are  *)
(* better, and of two candidates with as many the smaller id.              *)
(***************************************************************************)
EXTENDS Integers, Sequences

CONSTANT Inputs   \* the lists of candidates that Select is called with

Candidate == [id : Nat, cooling : BOOLEAN, inflight : Nat]

ASSUME InputsAssumption == Inputs \subseteq Seq(Candidate)

VARIABLES
    candidates,   \* the argument
    i,            \* the next candidate to look at
    best, found   \* the variables of that name

vars == <<candidates, i, best, found>>

NoCandidate == [id |-> 0, cooling |-> FALSE, inflight |-> 0]

Init ==
    /\ candidates \in Inputs
    /\ i = 1
    /\ best = NoCandidate
    /\ found = FALSE

c == candidates[i]

Visit == i <= Len(candidates) /\ i' = i + 1 /\ UNCHANGED candidates

Take == best' = c /\ found' = TRUE
Keep == UNCHANGED <<best, found>>

(* Bug: a tie goes to the candidate seen last.                             *)
BetterOrLast ==
    found /\ c.inflight <= best.inflight

(* Fewer in flight, or as many and a smaller id.                           *)
Better ==
    found /\ (c.inflight < best.inflight \/ (c.inflight = best.inflight /\ c.id < best.id))

PassOver == Visit /\ c.cooling /\ Keep
First    == Visit /\ ~c.cooling /\ ~found /\ Take
Improve  == Visit /\ ~c.cooling /\ Better /\ Take
Decline  == Visit /\ ~c.cooling /\ found /\ ~Better /\ Keep

Next == PassOver \/ First \/ Improve \/ Decline

Spec     == Init /\ [][Next]_vars
FairSpec == Spec /\ WF_vars(Next)

-----------------------------------------------------------------------------
Returned == i = Len(candidates) + 1

(* Those of the first n candidates that may be selected.                   *)
Eligible(n) == {k \in 1 .. n : ~candidates[k].cooling}

Seen        == Eligible(i - 1)

NoWorse(x, y) == x.inflight < y.inflight \/ (x.inflight = y.inflight /\ x.id <= y.id)

TypeOK ==
    /\ candidates \in Seq(Candidate)
    /\ i \in 1 .. Len(candidates) + 1
    /\ best \in Candidate
    /\ found \in BOOLEAN

(* What the loop has found after each round: nothing if all candidates so  *)
(* far cool down, else one of those that do not, and no other is better.   *)
BestSoFar ==
    /\ found <=> Seen # {}
    /\ found => /\ \E k \in Seen : candidates[k] = best
                /\ \A k \in Seen : NoWorse(best, candidates[k])

(* Select fails with ErrNoHealthyKeys exactly if every candidate cools     *)
(* down; otherwise it returns a candidate that does not, with the fewest   *)
(* requests in flight and, among those, the smallest id: whatever the      *)
(* order of the list.                                                      *)
SelectsLeast ==
    Returned =>
        LET eligible == Eligible(Len(candidates)) IN
        /\ found <=> eligible # {}
        /\ found => /\ \E k \in eligible : candidates[k] = best
                    /\ \A k \in eligible : NoWorse(best, candidates[k])
=============================================================================
