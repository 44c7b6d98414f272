---------------------------- MODULE MCDownstream ----------------------------
(* Downstream on a small instance.  The reports: a prompt and a total,     *)
(* halves that contradict their total, a total with nonsense.              *)
EXTENDS Downstream, TLC

SomeReports == {[prompt |-> 1, completion |-> 0, total |-> 3],
                [prompt |-> 1, completion |-> 2, total |-> 2],
                [prompt |-> -1, completion |-> 0, total |-> 2]}

Alike == Permutations(Admins) \cup Permutations(Requests) \cup Permutations(Tokens)
=============================================================================
