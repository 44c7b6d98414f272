--------------------------- MODULE KeyHealthProofs ---------------------------
(* What KeyHealth guarantees for every set of keys and callers, every base *)
(* and cap of the cooldown and every bound.                                *)
EXTENDS KeyHealth, TLAPS

(* Every exponent failureCooldown uses is in the table, and 2^e is         *)
(* positive.                                                               *)
LEMMA DoublingsPositive == \A i \in 1 .. 11 : Doublings[i] \in Nat \ {0}
  BY DEF Doublings

(* failureCooldown yields a duration between nothing and the cap, and a    *)
(* positive one for any failure at all.                                    *)
LEMMA CooldownType ==
  ASSUME NEW n \in Nat
  PROVE  /\ FailureCooldown(n) \in Nat
         /\ FailureCooldown(n) <= Cap
         /\ FailureCooldown(n) = 0 <=> n = 0
  <1> DEFINE i == IF n <= 10 THEN n ELSE 11
  <1>1. CASE n = 0
    BY <1>1, CooldownAssumption DEF FailureCooldown
  <1>2. CASE n > 0
    <2>1. i \in 1 .. 11
      BY <1>2
    <2>2. PICK d \in Nat \ {0} : d = Doublings[i]
      BY <2>1, DoublingsPositive
    <2>3. Base * d \in Nat \ {0}
      BY <2>2, CooldownAssumption
    <2>4. FailureCooldown(n) = IF Base * d > Cap THEN Cap ELSE Base * d
      BY <1>2, <2>2 DEF FailureCooldown
    <2> QED
      BY <1>2, <2>3, <2>4, CooldownAssumption
  <1> QED
    BY <1>1, <1>2

(* One failure more never shortens the cooldown.                           *)
LEMMA CooldownGrows ==
  ASSUME NEW n \in Nat
  PROVE  FailureCooldown(n) <= FailureCooldown(n + 1)
  <1> DEFINE i == IF n <= 10 THEN n ELSE 11
             j == IF n + 1 <= 10 THEN n + 1 ELSE 11
  <1>1. CASE n = 0
    BY <1>1, CooldownType
  <1>2. CASE n > 0
    <2>1. i \in 1 .. 11 /\ j \in 1 .. 11
      BY <1>2
    <2>2. \A p, q \in 1 .. 11 : p <= q => Doublings[p] <= Doublings[q]
      BY DEF Doublings
    <2>3. PICK d \in Nat, e \in Nat :
             d = Doublings[i] /\ e = Doublings[j] /\ d <= e
      BY <2>1, <2>2, DoublingsPositive
    <2>4. Base * d <= Base * e /\ Base * d \in Nat /\ Base * e \in Nat
      BY <2>3, CooldownAssumption
    <2>5. FailureCooldown(n) = IF Base * d > Cap THEN Cap ELSE Base * d
      BY <1>2, <2>3 DEF FailureCooldown
    <2>6. FailureCooldown(n + 1) = IF Base * e > Cap THEN Cap ELSE Base * e
      BY <1>2, <2>3 DEF FailureCooldown
    <2> QED
      BY <2>4, <2>5, <2>6, CooldownAssumption
  <1> QED
    BY <1>1, <1>2

-----------------------------------------------------------------------------
(* The assumptions on the constants and the bounds of a cooldown, in the   *)
(* form the proofs below use them.                                         *)
LEMMA CooldownFacts ==
  /\ \A n \in Nat : FailureCooldown(n) \in Nat /\ FailureCooldown(n) <= Cap
  /\ \A n \in Nat : FailureCooldown(n + 1) > 0
  /\ FailureCooldown(0) = 0
  /\ Cap \in Nat
  <1>1. \A n \in Nat : n + 1 \in Nat /\ n + 1 # 0
    OBVIOUS
  <1> QED
    BY <1>1, CooldownType, CooldownAssumption

LEMMA TypeInit == Init => TypeOK
  BY DEF Init, TypeOK, AbsentRow, Row, Call, NoCall, Statuses, Outcomes, NoKey

LEMMA TypeStep == TypeOK /\ [Next]_healthVars => TypeOK'
  <1> USE DEF Row, Call, NoCall, Statuses, Outcomes, NoKey
  <1> SUFFICES ASSUME TypeOK, [Next]_healthVars PROVE TypeOK'
    OBVIOUS
  <1> USE DEF TypeOK, HasRow, AbsentRow, HealthyRow, Opened, HasSeen
  <1>1. ASSUME NEW k \in Keys PROVE Ensured(k) \in [Keys -> Row]
    BY DEF Ensured
  <1>2. ASSUME NEW k \in Keys, Ensure(k) PROVE TypeOK'
    BY <1>1, <1>2 DEF Ensure
  <1>3. ASSUME NEW c \in Callers, NEW k \in Keys, NEW o \in Outcomes,
               MarkBegin(c, k, o)
        PROVE TypeOK'
    BY <1>1, <1>3 DEF MarkBegin
  <1>4. ASSUME NEW c \in Callers, MarkReset(c) PROVE TypeOK'
    BY <1>4 DEF MarkReset
  <1>5. ASSUME NEW c \in Callers, MarkRecheck(c) PROVE TypeOK'
    <2>1. mark[c].key \in Keys
      BY <1>5 DEF MarkRecheck
    <2> QED
      BY <1>1, <1>5, <2>1 DEF MarkRecheck
  <1>6. ASSUME NEW c \in Callers, MarkRead(c) PROVE TypeOK'
    <2>1. keyState[mark[c].key].failures \in Nat
      BY <1>6 DEF MarkRead
    <2> QED
      BY <1>6, <2>1 DEF MarkRead
  <1>7. ASSUME NEW c \in Callers, MarkWrite(c) PROVE TypeOK'
    <2> DEFINE k == mark[c].key
    <2>1. k \in Keys /\ mark[c].seen + 1 \in Nat
      BY <1>7 DEF MarkWrite
    <2>2. \A t \in mark[c].at .. now : FailedRow(mark[c].seen + 1, t) \in Row
      BY <2>1, CooldownFacts DEF FailedRow
    <2>3. CASE HasRow(k)
      <3>1. PICK t \in mark[c].at .. now :
              /\ keyState' = [keyState EXCEPT ![k] = FailedRow(mark[c].seen + 1, t)]
              /\ recorded' = [recorded EXCEPT ![k] = @ + 1]
        BY <1>7, <2>3 DEF MarkWrite
      <3>2. keyState' \in [Keys -> Row]
        <4> HIDE DEF Row
        <4> QED
          BY <2>1, <2>2, <3>1
      <3>3. recorded' \in [Keys -> Nat]
        BY <2>1, <3>1
      <3> QED
        BY <1>7, <3>2, <3>3 DEF MarkWrite
    <2>4. CASE ~HasRow(k)
      BY <1>7, <2>4 DEF MarkWrite
    <2> QED
      BY <2>3, <2>4
  <1>8. ASSUME NEW c \in Callers, MarkAbort(c) PROVE TypeOK'
    BY <1>8 DEF MarkAbort
  <1>9. ASSUME NEW k \in Keys, DeleteRow(k) PROVE TypeOK'
    BY <1>9 DEF DeleteRow
  <1>10. CASE Tick
    BY <1>10 DEF Tick
  <1>11. CASE Crash
    BY <1>11 DEF Crash
  <1>12. CASE UNCHANGED healthVars
    BY <1>12 DEF healthVars
  <1> QED
    BY <1>2, <1>3, <1>4, <1>5, <1>6, <1>7, <1>8, <1>9, <1>10, <1>11, <1>12
       DEF Next, Report, Proceed

(* Every variable keeps its type, whatever the callers do.                 *)
THEOREM TypeCorrect == Spec => []TypeOK
  BY TypeInit, TypeStep, PTL DEF Spec

-----------------------------------------------------------------------------
(* The invariant that carries the three properties of the rows is kept by  *)
(* every step, for any number of callers.                                  *)
LEMMA HealthInvStep == HealthInv /\ [Next]_healthVars => HealthInv'
  <1> SUFFICES ASSUME HealthInv, [Next]_healthVars PROVE HealthInv'
    OBVIOUS
  <1>t. TypeOK'
    BY TypeStep DEF HealthInv
  <1> DEFINE Good(row, n) ==
        /\ row.failures = 0 <=> row.status \in {"absent", "healthy"}
        /\ row.failures = 0 => row.until = 0
        /\ row.failures > 0 => row.status = "cooling_down"
        /\ row.until <= now + FailureCooldown(row.failures)
        /\ row.until <= now + Cap
        /\ row.failures <= n
  <1> USE DEF HealthInv, TypeOK, Row, Call, Statuses, Outcomes
  <1>g. \A k \in Keys : Good(keyState[k], recorded[k])
    BY DEF RowConsistent, CooldownBounded, CountBounded
  <1>c. \A n \in Nat : Good(AbsentRow, n) /\ Good(HealthyRow, n)
    BY CooldownFacts DEF AbsentRow, HealthyRow
  <1>i. ASSUME now' = now,
               \A k \in Keys : Good(keyState'[k], recorded'[k])
        PROVE  RowConsistent' /\ CooldownBounded' /\ CountBounded'
    BY <1>i DEF RowConsistent, CooldownBounded, CountBounded
  <1>e. ASSUME NEW k \in Keys, keyState' = Ensured(k), recorded' = recorded
        PROVE  \A l \in Keys : Good(keyState'[l], recorded'[l])
    BY <1>e, <1>g, <1>c DEF Ensured
  <1>1. ASSUME NEW k \in Keys, Ensure(k) PROVE HealthInv'
    <2>1. SeenBounded'
      BY <1>1 DEF Ensure, SeenBounded
    <2> QED
      BY <1>1, <1>t, <1>e, <1>i, <2>1 DEF Ensure
  <1>2. ASSUME NEW c \in Callers, NEW k \in Keys, NEW o \in Outcomes,
               MarkBegin(c, k, o)
        PROVE HealthInv'
    <2>1. SeenBounded'
      BY <1>2 DEF MarkBegin, SeenBounded, Opened
    <2> QED
      BY <1>2, <1>t, <1>e, <1>i, <2>1 DEF MarkBegin
  <1>3. ASSUME NEW c \in Callers, MarkReset(c) PROVE HealthInv'
    <2>1. SeenBounded'
      BY <1>3 DEF MarkReset, SeenBounded, NoCall
    <2>2. \A l \in Keys : Good(keyState'[l], recorded'[l])
      BY <1>3, <1>g, <1>c DEF MarkReset
    <2> QED
      BY <1>3, <1>t, <1>i, <2>1, <2>2 DEF MarkReset
  <1>4. ASSUME NEW c \in Callers, MarkRecheck(c) PROVE HealthInv'
    <2>1. SeenBounded'
      BY <1>4 DEF MarkRecheck, SeenBounded
    <2>2. mark[c].key \in Keys
      BY <1>4 DEF MarkRecheck
    <2> QED
      BY <1>4, <1>t, <1>e, <1>i, <2>1, <2>2 DEF MarkRecheck
  <1>5. ASSUME NEW c \in Callers, MarkRead(c) PROVE HealthInv'
    <2>1. SeenBounded'
      BY <1>5, <1>g DEF MarkRead, SeenBounded, HasSeen, NoCall
    <2> QED
      BY <1>5, <1>t, <1>g, <1>i, <2>1 DEF MarkRead
  <1>6. ASSUME NEW c \in Callers, MarkWrite(c) PROVE HealthInv'
    <2> DEFINE k == mark[c].key
               n == mark[c].seen
    <2>1. k \in Keys /\ n \in Nat /\ n <= recorded[k]
      BY <1>6 DEF MarkWrite, SeenBounded
    <2>2. SeenBounded'
      BY <1>6, <2>1 DEF MarkWrite, SeenBounded, NoCall
    <2>3. \A t \in mark[c].at .. now : Good(FailedRow(n + 1, t), recorded[k] + 1)
      BY <2>1, CooldownFacts DEF FailedRow
    <2>4. \A l \in Keys : Good(keyState'[l], recorded'[l])
      BY <1>6, <1>g, <2>1, <2>3 DEF MarkWrite
    <2> QED
      BY <1>6, <1>t, <1>i, <2>2, <2>4 DEF MarkWrite
  <1>7. ASSUME NEW c \in Callers, MarkAbort(c) PROVE HealthInv'
    <2>1. SeenBounded'
      BY <1>7 DEF MarkAbort, SeenBounded, NoCall
    <2> QED
      BY <1>7, <1>t, <1>g, <1>i, <2>1 DEF MarkAbort
  <1>8. ASSUME NEW k \in Keys, DeleteRow(k) PROVE HealthInv'
    <2>1. SeenBounded'
      BY <1>8 DEF DeleteRow, SeenBounded
    <2>2. \A l \in Keys : Good(keyState'[l], recorded'[l])
      BY <1>8, <1>g, <1>c DEF DeleteRow
    <2> QED
      BY <1>8, <1>t, <1>i, <2>1, <2>2 DEF DeleteRow
  <1>9. CASE Tick
    <2>1. \A k \in Keys : FailureCooldown(keyState[k].failures) \in Nat
      BY CooldownFacts
    <2>2. CooldownBounded'
      BY <1>9, <2>1, CooldownFacts DEF Tick, CooldownBounded
    <2> QED
      BY <1>9, <1>t, <2>2 DEF Tick, RowConsistent, CountBounded, SeenBounded
  <1>10. CASE Crash
    <2>1. SeenBounded'
      BY <1>10 DEF Crash, SeenBounded, NoCall
    <2> QED
      BY <1>10, <1>t, <1>g, <1>i, <2>1 DEF Crash
  <1>11. CASE UNCHANGED healthVars
    BY <1>11, <1>t DEF healthVars, RowConsistent, CooldownBounded, CountBounded, SeenBounded
  <1> QED
    BY <1>1, <1>2, <1>3, <1>4, <1>5, <1>6, <1>7, <1>8, <1>9, <1>10, <1>11
       DEF Next, Report, Proceed

LEMMA HealthInvariant == Spec => []HealthInv
  <1>1. Init => HealthInv
    BY TypeInit, CooldownFacts
       DEF Init, HealthInv, AbsentRow, RowConsistent, CooldownBounded, CountBounded,
           SeenBounded, NoCall
  <1> QED
    BY <1>1, HealthInvStep, PTL DEF Spec

(* The columns of a row always agree: cooling_down, a positive count and a *)
(* cooldown go together however calls interleave, fail or race a deletion. *)
THEOREM RowsAgree == Spec => []RowConsistent
  BY HealthInvariant, PTL DEF HealthInv

(* No key is ever set aside beyond the cooldown its count of failures      *)
(* stands for, nor beyond the cap.                                         *)
THEOREM CooldownsEndInTime == Spec => []CooldownBounded
  BY HealthInvariant, PTL DEF HealthInv

(* Overlapping failure reports never add up to more than happened.         *)
THEOREM FailuresNotInvented == Spec => []CountBounded
  BY HealthInvariant, PTL DEF HealthInv

-----------------------------------------------------------------------------
(* The next statement of call c is an update of the row; while a failure   *)
(* that was read is to be written, no other call to its key is about to.   *)
Updates(c)   == mark[c].pc = "read" \/ (mark[c].pc = "ensured" /\ mark[c].outcome = "success")
UpdatesApart ==
    \A c, d \in Callers : mark[c].pc = "read" /\ Updates(d) /\ mark[c].key = mark[d].key => c = d

LEMMA SeenStays ==
  ASSUME SeenCurrent,
         \A c \in Callers : mark'[c].pc = "read" =>
            mark'[c] = mark[c] /\ keyState'[mark[c].key] = keyState[mark[c].key]
  PROVE  SeenCurrent'
  BY DEF SeenCurrent, HasRow

(* Then what a call has read of a key that is not deleted stays current    *)
(* until it writes.                                                        *)
LEMMA SeenCurrentStep == HealthInv /\ SeenCurrent /\ UpdatesApart /\ [Next]_healthVars => SeenCurrent'
  <1> SUFFICES ASSUME HealthInv, SeenCurrent, UpdatesApart, [Next]_healthVars PROVE SeenCurrent'
    OBVIOUS
  <1> USE DEF HealthInv, TypeOK, Row, Call, Statuses, Outcomes
  <1>e. ASSUME NEW k \in Keys, keyState' = Ensured(k)
        PROVE  \A l \in Keys : HasRow(l) => HasRow(l)' /\ keyState'[l] = keyState[l]
    BY <1>e DEF Ensured, HasRow
  <1>1. ASSUME NEW k \in Keys, Ensure(k) PROVE SeenCurrent'
    BY <1>1, <1>e DEF Ensure, SeenCurrent
  <1>2. ASSUME NEW c \in Callers, NEW k \in Keys, NEW o \in Outcomes,
               MarkBegin(c, k, o)
        PROVE SeenCurrent'
    <2>1. keyState' = Ensured(k) /\ mark' = [mark EXCEPT ![c] = Opened(k, o)]
      BY <1>2 DEF MarkBegin
    <2>2. \A d \in Callers : mark'[d].pc = "read" => mark'[d] = mark[d]
      BY <2>1 DEF Opened
    <2> QED
      BY <1>e, <2>1, <2>2 DEF SeenCurrent
  <1>3. ASSUME NEW c \in Callers, MarkReset(c) PROVE SeenCurrent'
    <2>1. \A d \in Callers : mark[d].pc = "read" => d # c /\ mark[d].key # mark[c].key
      BY <1>3 DEF MarkReset, UpdatesApart, Updates
    <2> QED
      BY <1>3, <2>1 DEF MarkReset, SeenCurrent, NoCall, HasRow
  <1>4. ASSUME NEW c \in Callers, MarkRecheck(c) PROVE SeenCurrent'
    <2>1. keyState' = Ensured(mark[c].key) /\ mark[c].key \in Keys
      BY <1>4 DEF MarkRecheck
    <2> QED
      BY <1>4, <1>e, <2>1 DEF MarkRecheck, SeenCurrent
  <1>5. ASSUME NEW c \in Callers, MarkRead(c) PROVE SeenCurrent'
    BY <1>5 DEF MarkRead, SeenCurrent, HasSeen, NoCall, CooldownBounded, HasRow
  <1>6. ASSUME NEW c \in Callers, MarkWrite(c) PROVE SeenCurrent'
    <2>1. \A d \in Callers : mark[d].pc = "read" /\ d # c => mark[d].key # mark[c].key
      BY <1>6 DEF MarkWrite, UpdatesApart, Updates
    <2>2. mark' = [mark EXCEPT ![c] = NoCall]
      BY <1>6 DEF MarkWrite
    <2>3. \A d \in Callers : mark'[d].pc = "read" => d # c /\ mark'[d] = mark[d]
      BY <2>2 DEF NoCall
    <2>4. \A k \in Keys : k # mark[c].key => keyState'[k] = keyState[k]
      BY <1>6 DEF MarkWrite
    <2>5. \A d \in Callers : mark'[d].pc = "read" =>
                              keyState'[mark[d].key] = keyState[mark[d].key]
      BY <2>1, <2>3, <2>4
    <2> QED
      BY <2>3, <2>5, SeenStays
  <1>7. ASSUME NEW c \in Callers, MarkAbort(c) PROVE SeenCurrent'
    <2>1. \A d \in Callers : mark'[d].pc = "read" => mark'[d] = mark[d]
      BY <1>7 DEF MarkAbort, NoCall
    <2> QED
      BY <1>7, <2>1, SeenStays DEF MarkAbort
  <1>8. ASSUME NEW k \in Keys, DeleteRow(k) PROVE SeenCurrent'
    BY <1>8 DEF DeleteRow, SeenCurrent, HasRow
  <1>9. CASE Tick
    BY <1>9 DEF Tick, SeenCurrent, HasRow
  <1>10. CASE Crash
    BY <1>10 DEF Crash, SeenCurrent, NoCall
  <1>11. CASE UNCHANGED healthVars
    BY <1>11 DEF healthVars, SeenCurrent, HasRow
  <1> QED
    BY <1>1, <1>2, <1>3, <1>4, <1>5, <1>6, <1>7, <1>8, <1>9, <1>10, <1>11
       DEF Next, Report, Proceed

(* The promise that a further failure counts one more and extends the      *)
(* cooldown: what one recorded failure does to a key that is not deleted.  *)
FailureExtends ==
  \A k \in Keys \ Deletable :
      RecordsFailure(k) => /\ keyState'[k].failures = keyState[k].failures + 1
                           /\ keyState'[k].until >= keyState[k].until

(* The one step that records a failure keeps the promise if what the call  *)
(* has read is still current.                                              *)
LEMMA FailureExtendsStep ==
  HealthInv /\ SeenCurrent /\ [Next]_healthVars => FailureExtends
  <1> SUFFICES ASSUME HealthInv, SeenCurrent, [Next]_healthVars PROVE FailureExtends
    OBVIOUS
  <1> USE DEF HealthInv, TypeOK, Row, Call
  <1>1. ASSUME recorded' = recorded PROVE FailureExtends
    BY <1>1 DEF FailureExtends, RecordsFailure
  <1>2. ASSUME NEW c \in Callers, MarkWrite(c) PROVE FailureExtends
    <2> DEFINE k == mark[c].key
               n == mark[c].seen
    <2>1. CASE k \in Deletable \/ ~HasRow(k)
      BY <1>2, <2>1 DEF MarkWrite, FailureExtends, RecordsFailure
    <2>2. CASE k \notin Deletable /\ HasRow(k)
      <3>1. k \in Keys /\ n \in Nat /\ keyState[k].failures = n
        BY <1>2, <2>2 DEF MarkWrite, SeenCurrent
      <3>2. keyState[k].until <= mark[c].at + FailureCooldown(n)
        BY <1>2, <2>2 DEF MarkWrite, SeenCurrent
      <3>3. PICK t \in mark[c].at .. now :
               /\ keyState' = [keyState EXCEPT ![k] = FailedRow(n + 1, t)]
               /\ recorded' = [recorded EXCEPT ![k] = @ + 1]
        BY <1>2, <2>2 DEF MarkWrite
      <3>4. keyState'[k].failures = n + 1
            /\ keyState'[k].until = t + FailureCooldown(n + 1)
        BY <3>1, <3>3 DEF FailedRow
      <3>5. keyState'[k].until >= keyState[k].until
        BY <3>1, <3>2, <3>4, CooldownGrows, CooldownFacts
      <3> QED
        BY <3>1, <3>3, <3>4, <3>5 DEF FailureExtends, RecordsFailure
    <2> QED
      BY <2>1, <2>2
  <1> QED
    BY <1>1, <1>2
       DEF Next, Report, Proceed, Crash, Ensure, MarkBegin, MarkReset, MarkRecheck, MarkRead, MarkAbort,
           DeleteRow, Tick, healthVars

(* Every further failure of a key counts one more and never shortens its   *)
(* cooldown, whatever else ensures rows, deletes keys, reports or gives up, *)
(* if only no other update of the row comes between the read and the       *)
(* update of markFailure.                                                  *)
THEOREM UpdatesApartExtendCooldown == Spec /\ []UpdatesApart => FailuresExtendCooldown
  <1>1. Init => SeenCurrent
    BY DEF Init, SeenCurrent, NoCall
  <1>2. HealthInv /\ SeenCurrent /\ UpdatesApart /\ [Next]_healthVars => SeenCurrent'
    BY SeenCurrentStep
  <1>3. HealthInv /\ SeenCurrent /\ [Next]_healthVars => [FailureExtends]_healthVars
    BY FailureExtendsStep
  <1> QED
    BY <1>1, <1>2, <1>3, HealthInvariant, PTL
       DEF Spec, FailuresExtendCooldown, FailureExtends

(* So it is as long as no two goroutines report outcomes at the same time. *)
THEOREM OneCallerExtendsCooldown ==
  ASSUME \A c, d \in Callers : c = d
  PROVE  Spec => FailuresExtendCooldown
  <1>1. Spec => []UpdatesApart
    <2>1. UpdatesApart
      BY DEF UpdatesApart
    <2> QED
      BY <2>1, PTL
  <1> QED
    BY <1>1, UpdatesApartExtendCooldown, PTL
=============================================================================
