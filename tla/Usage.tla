------------------------------- MODULE Usage -------------------------------
(***************************************************************************)
(* Token counts as providers report them and as the gateway books them:    *)
(* usage.Normalize of usage/usage.go.  Providers leave counts out (0), and *)
(* what they report need not add up.                                       *)
(***************************************************************************)
EXTENDS Integers

Report == [prompt : Int, completion : Int, total : Int]
Booked == [prompt : Nat, completion : Nat, total : Nat]

(* Bug: negative counts are kept.                                          *)
ClampNothing(n) == n

Clamp(n) == IF n < 0 THEN 0 ELSE n

(* Bug: a half that is missing stays so.                                   *)
NormalizeKeepsHalves(u) ==
    LET p   == Clamp(u.prompt)
        sum == p + Clamp(u.completion)
        t   == Clamp(u.total)
    IN  [prompt |-> p, completion |-> IF sum = 0 THEN t ELSE Clamp(u.completion),
         total |-> IF sum > 0 THEN sum ELSE t]

(* Bug: the halves are not added up again in the end.                      *)
NormalizeUnsummed(u) ==
    LET p == Clamp(u.prompt)
        c == Clamp(u.completion)
        t == IF Clamp(u.total) = 0 THEN p + c ELSE Clamp(u.total)
    IN  [prompt |-> p, completion |-> IF p + c = 0 THEN t ELSE c, total |-> t]

(* A missing total is the sum; a total alone counts as completion; a half  *)
(* that is missing is the rest of the total; then the sum is the total.    *)
Normalize(u) ==
    LET p == Clamp(u.prompt)
        c == Clamp(u.completion)
        t == IF Clamp(u.total) = 0 THEN p + c ELSE Clamp(u.total)
        completion == IF p + c = 0 THEN t
                      ELSE IF c = 0 /\ p < t THEN t - p ELSE c
        prompt     == IF p = 0 /\ 0 < completion /\ completion < t
                      THEN t - completion ELSE p
        sum        == prompt + completion
    IN  [prompt |-> prompt, completion |-> completion,
         total |-> IF sum > 0 THEN sum ELSE t]

(* What is booked adds up.                                                 *)
AddsUp(b) == b.total = b.prompt + b.completion

(* What is booked keeps every positive half that was reported, and the     *)
(* total too unless the halves contradict it.                              *)
Keeps(b, u) ==
    /\ u.prompt > 0 => b.prompt = u.prompt
    /\ u.completion > 0 => b.completion = u.completion
    /\ /\ u.total > 0 /\ (u.prompt <= 0 \/ u.completion <= 0)
       /\ u.prompt <= u.total /\ u.completion <= u.total
       => b.total = u.total
=============================================================================
