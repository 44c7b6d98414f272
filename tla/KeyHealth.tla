------------------------------ MODULE KeyHealth ------------------------------
(***************************************************************************)
(* The health record of every upstream key: table key_state and the calls  *)
(* of store/state.go that read and write it.                               *)
(*                                                                         *)
(* The pool holds one SQLite connection (store/db.go), so one statement is *)
(* one atomic step.  A call of MarkSuccess, MarkFailure, MarkProbeSuccess  *)
(* or MarkProbeFailure is several statements: between them any other call  *)
(* may run.  mark[c] is where caller c stands in such a call.              *)
(*                                                                         *)
(* Callers are whatever runs in the server: gateway requests, admin        *)
(* requests, the probe at start.  Every statement may fail, because of the *)
(* database or because the client went away and its context is cancelled.  *)
(***************************************************************************)
EXTENDS Integers, FiniteSets

CONSTANTS
    Keys,         \* ids that upstream keys have or had
    Deletable,    \* those of Keys that an administrator may delete
    Callers,      \* goroutines that report outcomes
    Base,         \* cooldownBase, in ticks
    Cap,          \* cooldownCap, in ticks
    MaxNow,       \* bound: the clock stops here unless some key cools down
    MaxFailures   \* bound: reports of failure begun for one key

ASSUME KeysAssumption     == Keys \subseteq Nat \ {0} /\ Deletable \subseteq Keys
ASSUME CooldownAssumption == Base \in Nat \ {0} /\ Cap \in Nat \ {0}
ASSUME BoundsAssumption   == MaxNow \in Nat /\ MaxFailures \in Nat

NoKey == 0

VARIABLES
    keyState,     \* keyState[k]: the row of k, or AbsentRow
    mark,         \* mark[c]: the call in progress of caller c
    now,          \* the clock
    recorded      \* history: failure updates that found a row, per key

healthVars == <<keyState, mark, now, recorded>>

-----------------------------------------------------------------------------
(* Rows, calls and the cooldown they carry *)

Statuses == {"absent", "healthy", "degraded", "cooling_down"}
Row      == [status : Statuses, until : Nat, failures : Nat]

AbsentRow  == [status |-> "absent",  until |-> 0, failures |-> 0]
HealthyRow == [status |-> "healthy", until |-> 0, failures |-> 0]

Outcomes == {"success", "failure"}
Call     == [pc : {"idle", "ensured", "again", "read"}, key : Keys \cup {NoKey},
             outcome : Outcomes, seen : Nat, at : Nat]
NoCall   == [pc |-> "idle", key |-> NoKey, outcome |-> "success",
             seen |-> 0, at |-> 0]

Opened(k, outcome) ==
    [pc |-> "ensured", key |-> k, outcome |-> outcome, seen |-> 0, at |-> 0]
HasSeen(k, n, t) ==
    [pc |-> "read", key |-> k, outcome |-> "failure", seen |-> n, at |-> t]

HasRow(k) == keyState[k].status # "absent"

(* Bug: the status column decides, which nothing clears when time is up.   *)
IsCoolingByStatus(k) == keyState[k].status = "cooling_down"
IsCooling(k) == now < keyState[k].until

(* math.Pow(2, e) for the exponents e = 0 .. 10 the code can reach.        *)
Doublings == <<1, 2, 4, 8, 16, 32, 64, 128, 256, 512, 1024>>

(* Bug: no cap.                                                            *)
UncappedCooldown(n) ==
    IF n <= 0 THEN 0 ELSE Base * Doublings[IF n <= 10 THEN n ELSE 11]

(* The bound and the cap of failureCooldown.                               *)
FailureCooldown(n) ==
    IF n <= 0 THEN 0
    ELSE LET doubled == Base * Doublings[IF n <= 10 THEN n ELSE 11]
         IN  IF doubled > Cap THEN Cap ELSE doubled

(* Bug: the cooldown is taken off the clock.                               *)
RowFailedBefore(n, t) ==
    [status |-> "cooling_down", until |-> t - FailureCooldown(n), failures |-> n]

(* The row a failure leaves, the n-th in a row, reported at time t.        *)
FailedRow(n, t) ==
    [status   |-> IF FailureCooldown(n) > 0 THEN "cooling_down" ELSE "degraded",
     until    |-> t + FailureCooldown(n),
     failures |-> n]

(* insert ... on conflict do nothing                                       *)
Ensured(k) ==
    IF HasRow(k) THEN keyState ELSE [keyState EXCEPT ![k] = HealthyRow]

-----------------------------------------------------------------------------
Init ==
    /\ keyState = [k \in Keys |-> AbsentRow]
    /\ mark = [c \in Callers |-> NoCall]
    /\ now = 0
    /\ recorded = [k \in Keys |-> 0]

(* Ensure alone: handleCreateKey, handleUpdateKey, Get and Candidates.     *)
Ensure(k) ==
    /\ keyState' = Ensured(k)
    /\ UNCHANGED <<mark, now, recorded>>

(* The Ensure that opens every Mark call.                                  *)
MarkBegin(c, k, outcome) ==
    /\ mark[c].pc = "idle"
    /\ keyState' = Ensured(k)
    /\ mark' = [mark EXCEPT ![c] = Opened(k, outcome)]
    /\ UNCHANGED <<now, recorded>>

(* Bug: the success clears the cooldown and forgets the count.             *)
MarkResetKeepsCount(c) ==
    LET k == mark[c].key IN
    /\ mark[c].pc = "ensured" /\ mark[c].outcome = "success"
    /\ keyState' = IF HasRow(k)
                   THEN [keyState EXCEPT ![k].status = "healthy", ![k].until = 0]
                   ELSE keyState
    /\ mark' = [mark EXCEPT ![c] = NoCall]
    /\ UNCHANGED <<now, recorded>>

(* The update of MarkSuccess and MarkProbeSuccess; no row, no effect.      *)
MarkReset(c) ==
    LET k == mark[c].key IN
    /\ mark[c].pc = "ensured" /\ mark[c].outcome = "success"
    /\ keyState' = IF HasRow(k) THEN [keyState EXCEPT ![k] = HealthyRow] ELSE keyState
    /\ mark' = [mark EXCEPT ![c] = NoCall]
    /\ UNCHANGED <<now, recorded>>

(* markFailure calls Get, which ensures the row once more ...              *)
MarkRecheck(c) ==
    /\ mark[c].pc = "ensured" /\ mark[c].outcome = "failure"
    /\ keyState' = Ensured(mark[c].key)
    /\ mark' = [mark EXCEPT ![c].pc = "again"]
    /\ UNCHANGED <<now, recorded>>

(* Bug: the failure is counted both where it is read and where it is       *)
(* written.                                                                *)
MarkReadCounts(c) ==
    LET k == mark[c].key IN
    /\ mark[c].pc = "again"
    /\ mark' = [mark EXCEPT ![c] =
                  IF HasRow(k) THEN HasSeen(k, keyState[k].failures + 1, now) ELSE NoCall]
    /\ UNCHANGED <<keyState, now, recorded>>

(* ... and reads it: a row deleted since ends the call (ErrStateNotFound). *)
MarkRead(c) ==
    LET k == mark[c].key IN
    /\ mark[c].pc = "again"
    /\ mark' = [mark EXCEPT ![c] =
                  IF HasRow(k) THEN HasSeen(k, keyState[k].failures, now) ELSE NoCall]
    /\ UNCHANGED <<keyState, now, recorded>>

(* The clock is read at some t after the row was and before the update     *)
(* runs; what was read decides the new count and cooldown.                 *)
MarkWrite(c) ==
    LET k == mark[c].key IN
    /\ mark[c].pc = "read"
    /\ IF HasRow(k)
       THEN \E t \in mark[c].at .. now :
              /\ keyState' = [keyState EXCEPT ![k] = FailedRow(mark[c].seen + 1, t)]
              /\ recorded' = [recorded EXCEPT ![k] = @ + 1]
       ELSE UNCHANGED <<keyState, recorded>>
    /\ mark' = [mark EXCEPT ![c] = NoCall]
    /\ UNCHANGED now

(* The next statement of the call fails; what was written stays.           *)
MarkAbort(c) ==
    /\ mark[c].pc # "idle"
    /\ mark' = [mark EXCEPT ![c] = NoCall]
    /\ UNCHANGED <<keyState, now, recorded>>

(* KeyStore.Delete removes the row of the key.                             *)
DeleteRow(k) ==
    /\ k \in Deletable
    /\ keyState' = [keyState EXCEPT ![k] = AbsentRow]
    /\ UNCHANGED <<mark, now, recorded>>

(* The process stops: the calls in progress are lost, the rows stay.       *)
Crash ==
    /\ mark' = [c \in Callers |-> NoCall]
    /\ UNCHANGED <<keyState, now, recorded>>

(* Time passes, at least until no key cools down.                          *)
Tick ==
    /\ now < MaxNow \/ \E k \in Keys : now < keyState[k].until
    /\ now' = now + 1
    /\ UNCHANGED <<keyState, mark, recorded>>

Report == \E c \in Callers, k \in Keys, o \in Outcomes : MarkBegin(c, k, o)

Proceed ==
    \/ \E k \in Keys : Ensure(k)
    \/ \E c \in Callers : MarkReset(c)
    \/ \E c \in Callers : MarkRecheck(c)
    \/ \E c \in Callers : MarkRead(c)
    \/ \E c \in Callers : MarkWrite(c)
    \/ \E c \in Callers : MarkAbort(c)
    \/ \E k \in Keys : DeleteRow(k)
    \/ Crash
    \/ Tick

Next == Report \/ Proceed
Spec == Init /\ [][Next]_healthVars

(* For model checking: a key's failures are reported MaxFailures times, or *)
(* a few times more by calls that overlap.                                 *)
MayReport(k, outcome) == outcome = "failure" => recorded[k] < MaxFailures

BoundedReport ==
    \E c \in Callers, k \in Keys, o \in Outcomes : MayReport(k, o) /\ MarkBegin(c, k, o)

BoundedSpec == Init /\ [][BoundedReport \/ Proceed]_healthVars
FairSpec    == BoundedSpec /\ WF_healthVars(Tick)

-----------------------------------------------------------------------------
(* Every variable has its type: the rows migrate.go declares, the calls of *)
(* state.go in progress.                                                   *)
TypeOK ==
    /\ keyState \in [Keys -> Row]
    /\ mark \in [Callers -> Call]
    /\ now \in Nat
    /\ recorded \in [Keys -> Nat]
    /\ \A c \in Callers : /\ mark[c].pc # "idle" => mark[c].key \in Keys
                          /\ mark[c].at <= now

(* The three columns tell one story however the updates of concurrent      *)
(* calls interleave: the status says cooling_down exactly for a row with   *)
(* failures, which is exactly a row with a cooldown; nothing is degraded.  *)
RowConsistent ==
    \A k \in Keys :
        /\ keyState[k].failures = 0 <=> keyState[k].status \in {"absent", "healthy"}
        /\ keyState[k].failures = 0 => keyState[k].until = 0
        /\ keyState[k].failures > 0 => keyState[k].status = "cooling_down"

(* No key is set aside for longer than its count of failures allows, and   *)
(* so never for longer than the cap, counted from this very moment.        *)
CooldownBounded ==
    \A k \in Keys : /\ keyState[k].until <= now + FailureCooldown(keyState[k].failures)
                    /\ keyState[k].until <= now + Cap

(* The count never runs ahead of the failures that really were recorded:   *)
(* a race of callers, a success or a deletion between the read and the     *)
(* update of markFailure may lose failures but never invents any.          *)
CountBounded == \A k \in Keys : keyState[k].failures <= recorded[k]

RecordsFailure(k) == recorded'[k] # recorded[k]

(* A key is offered again and again, though nobody ever clears the status  *)
(* a failure left behind, unless failures of it are recorded for ever:     *)
(* each starts its cooldown anew, and nothing in the code bounds them.     *)
CooldownEnds ==
    \A k \in Keys : []<>~IsCooling(k) \/ []<><<RecordsFailure(k)>>_healthVars

(* What a call has read was true of a failure that was recorded.  With it  *)
(* the three properties above are kept by every step.                      *)
SeenBounded ==
    \A c \in Callers : mark[c].pc = "read" => mark[c].seen <= recorded[mark[c].key]

HealthInv ==
    TypeOK /\ RowConsistent /\ CooldownBounded /\ CountBounded /\ SeenBounded

(* If no updates overlap, what a call has read is still so when it writes. *)
SeenCurrent ==
    \A c \in Callers :
        LET k == mark[c].key IN
        mark[c].pc = "read" /\ k \notin Deletable =>
            /\ HasRow(k)
            /\ keyState[k].failures = mark[c].seen
            /\ keyState[k].until <= mark[c].at + FailureCooldown(mark[c].seen)

(* "Repeated failures: extend cooldown" (the design's failure handling):   *)
(* another failure of a key that is not deleted counts one more and never  *)
(* brings the end of its cooldown forward.  The read and the update of     *)
(* markFailure keep it as long as nobody comes between them.               *)
FailuresExtendCooldown ==
    [][\A k \in Keys \ Deletable :
          RecordsFailure(k) => /\ keyState'[k].failures = keyState[k].failures + 1
                               /\ keyState'[k].until >= keyState[k].until]_healthVars
=============================================================================
