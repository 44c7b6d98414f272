---------------------------- MODULE GatewayProofs ----------------------------
(* What Gateway guarantees for every set of keys, requests and probers.    *)
EXTENDS Gateway, FiniteSetTheorems, WellFoundedInduction, TLAPS

(* Every step of the gateway that touches the health of the keys is a step *)
(* of KeyHealth, and so is every other step, which leaves it alone.        *)
LEMMA HealthStep ==
  ASSUME SlotTypeOK, [Next]_gatewayVars
  PROVE  [H!Next]_healthVars
  <1> USE DEF Private
  <1>1. ASSUME NEW r \in Requests, Step(r) PROVE [H!Next]_healthVars
    <2>1. CASE EnsureCandidate(r)
      BY <2>1 DEF EnsureCandidate, H!Next, H!Proceed
    <2>2. CASE Mark(r)
      <3>1. key[r] \in Keys /\ Verdict(r) \in H!Outcomes
        BY <2>2 DEF Mark, At, SlotTypeOK, HoldingPcs, Verdict, H!Outcomes
      <3>2. H!MarkBegin(r, key[r], Verdict(r)) \/ UNCHANGED healthVars
        BY <2>2 DEF Mark
      <3> QED
        BY <3>1, <3>2 DEF H!Next, H!Report
    <2>3. CASE MarkGoesOn(r)
      <3>1. H!MarkAbort(r) \/ H!MarkReset(r) \/ H!MarkRecheck(r) \/ H!MarkRead(r)
              \/ H!MarkWrite(r)
        BY <2>3 DEF MarkGoesOn
      <3> QED
        BY <3>1 DEF H!Next, H!Proceed
    <2>4. CASE QueryCandidates(r) \/ ReadClock(r) \/ ReadInflight(r) \/ Select(r)
      BY <2>4 DEF QueryCandidates, ReadClock, ReadInflight, Select
    <2>5. CASE NoHealthyKeys(r) \/ GetKey(r) \/ RoutingFails(r)
      BY <2>5 DEF NoHealthyKeys, GetKey, RoutingFails
    <2>6. CASE Enter(r) \/ UpstreamFails(r) \/ Log(r) \/ Answer(r) \/ Leave(r)
      BY <2>6 DEF Enter, UpstreamFails, Log, Answer, Leave
    <2> QED
      BY <1>1, <2>1, <2>2, <2>3, <2>4, <2>5, <2>6 DEF Step, Routing, Marking
  <1>2. ASSUME NEW r \in Requests, Outside(r) PROVE UNCHANGED healthVars
    BY <1>2 DEF Outside, Arrive, NoKeyForModel, StreamStarts, UpstreamSucceeds, ClientLeaves
  <1>3. ASSUME NEW k \in Keys, DeleteKey(k) PROVE H!Next
    BY <1>3 DEF DeleteKey, H!Next, H!Proceed
  <1>4. ASSUME NEW p \in Probers, ProbeMark(p) PROVE H!Next
    BY <1>4 DEF ProbeMark, H!Next, H!Report, H!Proceed
  <1>5. CASE Restart
    BY <1>5 DEF Restart, H!Crash, H!Next, H!Proceed
  <1>6. CASE Tick
    BY <1>6 DEF Tick, H!Next, H!Proceed
  <1>7. CASE UNCHANGED gatewayVars
    BY <1>7 DEF gatewayVars, healthVars
  <1> QED
    BY <1>1, <1>2, <1>3, <1>4, <1>5, <1>6, <1>7 DEF Next, World

-----------------------------------------------------------------------------
(* A request moves on, keeps its key or selects one among Keys.            *)
LEMMA SlotTypeStep ==
  ASSUME SlotTypeOK, [Next]_gatewayVars
  PROVE  SlotTypeOK'
  <1> USE DEF SlotTypeOK, Pcs, HoldingPcs, At, Goto, Private, Reject
  <1>1. ASSUME NEW r \in Requests, Step(r) PROVE SlotTypeOK'
    <2>1. CASE EnsureCandidate(r)
      BY <2>1 DEF EnsureCandidate
    <2>2. CASE QueryCandidates(r)
      BY <2>2 DEF QueryCandidates
    <2>3. CASE ReadClock(r)
      BY <2>3 DEF ReadClock
    <2>4. CASE ReadInflight(r)
      BY <2>4 DEF ReadInflight
    <2>5. CASE Select(r)
      <3>1. PICK k \in Keys : key' = [key EXCEPT ![r] = k]
        BY <2>5 DEF Select
      <3> QED
        BY <2>5, <3>1 DEF Select
    <2>6. CASE NoHealthyKeys(r)
      BY <2>6 DEF NoHealthyKeys
    <2>7. CASE GetKey(r)
      BY <2>7 DEF GetKey
    <2>8. CASE RoutingFails(r)
      BY <2>8 DEF RoutingFails
    <2>9. CASE Enter(r)
      BY <2>9 DEF Enter
    <2>10. CASE UpstreamFails(r)
      BY <2>10 DEF UpstreamFails
    <2>11. CASE Log(r)
      BY <2>11 DEF Log
    <2>12. CASE Mark(r)
      BY <2>12 DEF Mark
    <2>13. CASE MarkGoesOn(r)
      BY <2>13 DEF MarkGoesOn
    <2>14. CASE Answer(r)
      BY <2>14 DEF Answer
    <2>15. CASE Leave(r)
      BY <2>15 DEF Leave
    <2> QED
      BY <1>1, <2>1, <2>2, <2>3, <2>4, <2>5, <2>6, <2>7, <2>8, <2>9, <2>10, <2>11,
         <2>12, <2>13, <2>14, <2>15 DEF Step, Routing, Marking
  <1>2. ASSUME NEW r \in Requests, Outside(r) PROVE SlotTypeOK'
    BY <1>2 DEF Outside, Arrive, NoKeyForModel, StreamStarts, UpstreamSucceeds, ClientLeaves
  <1>3. ASSUME NEW k \in Keys, DeleteKey(k) PROVE SlotTypeOK'
    BY <1>3 DEF DeleteKey, requestVars
  <1>4. ASSUME NEW p \in Probers, ProbeMark(p) PROVE SlotTypeOK'
    BY <1>4 DEF ProbeMark, requestVars
  <1>5. CASE Restart
    BY <1>5 DEF Restart, Zero
  <1>6. CASE Tick
    BY <1>6 DEF Tick, requestVars
  <1>7. CASE UNCHANGED gatewayVars
    BY <1>7 DEF gatewayVars
  <1> QED
    BY <1>1, <1>2, <1>3, <1>4, <1>5, <1>6, <1>7 DEF Next, World

LEMMA SlotTypeInit == Init => SlotTypeOK
  BY DEF Init, SlotTypeOK, Pcs, HoldingPcs, Zero

(* A request that is past its selection has a key, however it got there.   *)
THEOREM SlotsTyped == Spec => []SlotTypeOK
  BY SlotTypeInit, SlotTypeStep, PTL DEF Spec

(* The gateway implements KeyHealth: whatever requests, probes, deletions  *)
(* and crashes do to the health of the keys, KeyHealth allows it, and what *)
(* KeyHealthProofs proves of KeyHealth holds of the gateway.               *)
THEOREM ImplementsKeyHealth == Spec => H!Spec
  <1>1. Init => H!Init
    BY DEF Init
  <1>2. SlotTypeOK /\ [Next]_gatewayVars => [H!Next]_(H!healthVars)
    BY HealthStep DEF healthVars, H!healthVars
  <1> QED
    BY <1>1, <1>2, SlotsTyped, PTL DEF Spec, H!Spec

-----------------------------------------------------------------------------
(* There are finitely many requests, so those on a key can be counted.     *)
LEMMA HoldingFinite == \A k \in Keys : IsFiniteSet(Holding(k))
  BY RequestsAssumption, FS_Subset DEF Holding

(* A step that neither takes nor gives back a slot.                        *)
LEMMA SlotsKept ==
  ASSUME InflightExact, inflight' = inflight,
         \A r \in Requests : pc'[r] \in HoldingPcs <=> pc[r] \in HoldingPcs,
         \A r \in Requests : pc[r] \in HoldingPcs => key'[r] = key[r]
  PROVE  InflightExact'
  <1>1. ASSUME NEW k \in Keys PROVE Holding(k)' = Holding(k)
    BY DEF Holding
  <1> QED
    BY <1>1 DEF InflightExact

(* The step of request r takes a slot of its key ...                       *)
LEMMA SlotTaken ==
  ASSUME SlotTypeOK, InflightExact, NEW r \in Requests, Enter(r)
  PROVE  InflightExact'
  <1>1. key[r] \in Keys /\ pc[r] = "enter" /\ key' = key
    BY DEF Enter, At, SlotTypeOK
  <1>2. pc' = [pc EXCEPT ![r] = "upstream"]
    BY DEF Enter, Goto
  <1>3. inflight' = [inflight EXCEPT ![key[r]] = inflight[key[r]] + 1]
    BY DEF Enter
  <1>4. SUFFICES ASSUME NEW k \in Keys PROVE inflight'[k] = Cardinality(Holding(k)')
    BY DEF InflightExact
  <1>5. inflight[k] = Cardinality(Holding(k)) /\ IsFiniteSet(Holding(k))
    BY HoldingFinite DEF InflightExact
  <1>6. CASE k = key[r]
    <2>1. Holding(k)' = Holding(k) \cup {r} /\ r \notin Holding(k)
      BY <1>1, <1>2, <1>6 DEF Holding, HoldingPcs, SlotTypeOK
    <2>2. Cardinality(Holding(k) \cup {r}) = Cardinality(Holding(k)) + 1
      BY <1>5, <2>1, FS_AddElement
    <2> QED
      BY <1>1, <1>3, <1>5, <1>6, <2>1, <2>2 DEF SlotTypeOK
  <1>7. CASE k # key[r]
    <2>1. Holding(k)' = Holding(k)
      BY <1>1, <1>2, <1>7 DEF Holding, HoldingPcs, SlotTypeOK
    <2> QED
      BY <1>1, <1>3, <1>5, <1>7, <2>1 DEF SlotTypeOK
  <1> QED
    BY <1>6, <1>7

(* ... and gives it back.  Its own slot is counted, so the branch of       *)
(* DecrementInflight that drops the entry is taken for the last one only.  *)
LEMMA SlotGivenBack ==
  ASSUME SlotTypeOK, InflightExact, NEW r \in Requests, Leave(r)
  PROVE  InflightExact'
  <1>1. key[r] \in Keys /\ pc[r] = "leave" /\ key' = key
    BY DEF Leave, At, SlotTypeOK, HoldingPcs
  <1>2. pc' = [pc EXCEPT ![r] = "done"]
    BY DEF Leave, Goto
  <1>3. inflight' = [inflight EXCEPT ![key[r]] = IF inflight[key[r]] <= 1 THEN 0
                                                 ELSE inflight[key[r]] - 1]
    BY DEF Leave
  <1>4. SUFFICES ASSUME NEW k \in Keys PROVE inflight'[k] = Cardinality(Holding(k)')
    BY DEF InflightExact
  <1>5. inflight[k] = Cardinality(Holding(k)) /\ IsFiniteSet(Holding(k))
    BY HoldingFinite DEF InflightExact
  <1>6. CASE k = key[r]
    <2>1. Holding(k)' = Holding(k) \ {r} /\ r \in Holding(k)
      BY <1>1, <1>2, <1>6 DEF Holding, HoldingPcs, SlotTypeOK
    <2>2. Cardinality(Holding(k) \ {r}) = Cardinality(Holding(k)) - 1
      BY <1>5, <2>1, FS_RemoveElement
    <2>3. Cardinality(Holding(k) \ {r}) \in Nat
      BY <1>5, FS_RemoveElement, FS_CardinalityType
    <2> QED
      BY <1>1, <1>3, <1>5, <1>6, <2>1, <2>2, <2>3 DEF SlotTypeOK
  <1>7. CASE k # key[r]
    <2>1. Holding(k)' = Holding(k)
      BY <1>1, <1>2, <1>7 DEF Holding, HoldingPcs, SlotTypeOK
    <2> QED
      BY <1>1, <1>3, <1>5, <1>7, <2>1 DEF SlotTypeOK
  <1> QED
    BY <1>6, <1>7

LEMMA InflightInit == Init => InflightExact
  <1> SUFFICES ASSUME Init, NEW k \in Keys PROVE inflight[k] = Cardinality(Holding(k))
    BY DEF InflightExact
  <1>1. Holding(k) = {}
    BY DEF Init, Holding, HoldingPcs
  <1> QED
    BY <1>1, FS_EmptySet DEF Init, Zero

LEMMA InflightStep ==
  ASSUME SlotTypeOK, InflightExact, [Next]_gatewayVars
  PROVE  InflightExact'
  <1> USE DEF At, Goto, Private, Reject, HoldingPcs
  <1> DEFINE Kept == /\ inflight' = inflight
                     /\ \A q \in Requests : pc'[q] \in HoldingPcs <=> pc[q] \in HoldingPcs
                     /\ \A q \in Requests : pc[q] \in HoldingPcs => key'[q] = key[q]
  <1>1. ASSUME NEW r \in Requests, Step(r) PROVE InflightExact'
    <2> USE DEF SlotTypeOK
    <2>1. CASE EnsureCandidate(r) \/ QueryCandidates(r)
      <3>1. Kept
        BY <2>1 DEF EnsureCandidate, QueryCandidates
      <3> QED
        BY <3>1, SlotsKept
    <2>2. CASE ReadClock(r) \/ ReadInflight(r)
      <3>1. Kept
        BY <2>2 DEF ReadClock, ReadInflight
      <3> QED
        BY <3>1, SlotsKept
    <2>3. CASE Select(r)
      <3>1. PICK k \in Keys : key' = [key EXCEPT ![r] = k]
        BY <2>3 DEF Select
      <3>2. Kept
        BY <2>3, <3>1 DEF Select
      <3> QED
        BY <3>2, SlotsKept
    <2>4. CASE NoHealthyKeys(r) \/ GetKey(r) \/ RoutingFails(r)
      <3>1. Kept
        BY <2>4 DEF NoHealthyKeys, GetKey, RoutingFails
      <3> QED
        BY <3>1, SlotsKept
    <2>5. CASE Enter(r)
      BY <2>5, SlotTaken
    <2>6. CASE UpstreamFails(r) \/ Log(r) \/ Mark(r) \/ Answer(r)
      <3>1. Kept
        BY <2>6 DEF UpstreamFails, Log, Mark, Answer
      <3> QED
        BY <3>1, SlotsKept
    <2>7. CASE MarkGoesOn(r)
      <3>1. Kept
        BY <2>7 DEF MarkGoesOn
      <3> QED
        BY <3>1, SlotsKept
    <2>8. CASE Leave(r)
      BY <2>8, SlotGivenBack
    <2> QED
      BY <1>1, <2>1, <2>2, <2>3, <2>4, <2>5, <2>6, <2>7, <2>8 DEF Step, Routing, Marking
  <1>2. ASSUME NEW r \in Requests, Outside(r) PROVE InflightExact'
    <2>1. Kept
      BY <1>2 DEF Outside, Arrive, NoKeyForModel, StreamStarts, UpstreamSucceeds,
                  ClientLeaves, SlotTypeOK
    <2> QED
      BY <2>1, SlotsKept
  <1>3. ASSUME NEW k \in Keys, DeleteKey(k) PROVE InflightExact'
    BY <1>3, SlotsKept DEF DeleteKey, requestVars
  <1>4. ASSUME NEW p \in Probers, ProbeMark(p) PROVE InflightExact'
    BY <1>4, SlotsKept DEF ProbeMark, requestVars
  <1>5. CASE Restart
    <2> SUFFICES ASSUME NEW k \in Keys PROVE inflight'[k] = Cardinality(Holding(k)')
      BY DEF InflightExact
    <2>1. Holding(k)' = {}
      BY <1>5 DEF Restart, Holding
    <2> QED
      BY <1>5, <2>1, FS_EmptySet DEF Restart, Zero
  <1>6. CASE Tick
    BY <1>6, SlotsKept DEF Tick, requestVars
  <1>7. CASE UNCHANGED gatewayVars
    BY <1>7, SlotsKept DEF gatewayVars
  <1> QED
    BY <1>1, <1>2, <1>3, <1>4, <1>5, <1>6, <1>7 DEF Next, World

(* The counters the selector balances by are exact: for any number of      *)
(* requests, whatever fails, is cancelled or crashes, no slot leaks and    *)
(* none is given back twice.                                               *)
THEOREM SlotsExact == Spec => []InflightExact
  <1>1. SlotTypeOK /\ InflightExact /\ [Next]_gatewayVars => InflightExact'
    BY InflightStep
  <1> QED
    BY InflightInit, <1>1, SlotsTyped, PTL DEF Spec

-----------------------------------------------------------------------------
(* What is proved of KeyHealth, for the keys of the gateway; with all keys *)
(* deletable its assumptions are those of HealthAssumption.                *)
P == INSTANCE KeyHealthProofs WITH Deletable <- Keys, Callers <- Requests \cup Probers

LEMMA SameTypes == (H!TypeOK <=> P!TypeOK) /\ (H!TypeOK' <=> P!TypeOK')
  BY DEF H!TypeOK, P!TypeOK, H!Row, P!Row, H!Call, P!Call, H!Statuses, P!Statuses,
         H!Outcomes, P!Outcomes, H!NoKey, P!NoKey

LEMMA SameSteps == [H!Next]_healthVars <=> [P!Next]_(P!healthVars)
  <1>1. H!Next = P!Next
    BY DEF H!Next, P!Next, H!Report, P!Report, H!Proceed, P!Proceed, H!Outcomes, P!Outcomes,
           H!Ensure, P!Ensure, H!MarkBegin, P!MarkBegin, H!MarkReset, P!MarkReset,
           H!MarkRecheck, P!MarkRecheck, H!MarkRead, P!MarkRead, H!MarkWrite, P!MarkWrite,
           H!MarkAbort, P!MarkAbort, H!DeleteRow, P!DeleteRow, H!Crash, P!Crash, H!Tick, P!Tick,
           H!Ensured, P!Ensured, H!HasRow, P!HasRow, H!Opened, P!Opened, H!HasSeen, P!HasSeen,
           H!NoCall, P!NoCall, H!NoKey, P!NoKey, H!AbsentRow, P!AbsentRow,
           H!HealthyRow, P!HealthyRow, H!FailedRow, P!FailedRow,
           H!FailureCooldown, P!FailureCooldown, H!Doublings, P!Doublings
  <1>2. [H!Next]_healthVars <=> [H!Next]_(P!healthVars)
    BY DEF healthVars, P!healthVars
  <1>3. [H!Next]_(P!healthVars) <=> [P!Next]_(P!healthVars)
    BY <1>1
  <1> QED
    BY <1>2, <1>3

LEMMA HealthTypeStep == H!TypeOK /\ [H!Next]_healthVars => H!TypeOK'
  <1> SUFFICES ASSUME H!TypeOK, [H!Next]_healthVars PROVE H!TypeOK'
    OBVIOUS
  <1>1. P!TypeOK /\ [P!Next]_(P!healthVars)
    BY SameSteps, SameTypes
  <1>2. P!TypeOK'
    BY <1>1, P!TypeStep, HealthAssumption
  <1> QED
    BY <1>2, SameTypes

-----------------------------------------------------------------------------
(* Types.                                                                  *)
RestTypeOK ==
    /\ exists \subseteq Keys
    /\ route \in [Requests -> Route]
    /\ reply \in [Requests -> Reply]
    /\ gone \subseteq Requests
    /\ logs \in [Requests -> {"none", "ok", "error"}]
    /\ \A r \in Requests : At(r, "marking") <=> mark[r].pc # "idle"

HistoryTypeOK ==
    due \in [Requests -> [Keys -> Nat]] /\ born \in [Requests -> SUBSET Keys]

LEMMA HistoryTypeStep ==
  ASSUME HistoryTypeOK, Observe, exists' \subseteq Keys, H!TypeOK'
  PROVE  HistoryTypeOK'
  <1>1. \A k \in Keys : keyState'[k].until \in Nat
    BY DEF H!TypeOK, H!Row
  <1>2. \A k \in Keys, t \in Nat : Earliest(k, t) \in Nat
    BY <1>1 DEF Earliest
  <1> QED
    BY <1>1, <1>2 DEF HistoryTypeOK, Observe, Zero

(* The mark calls of the others stay as they are.                          *)
LEMMA NoMark ==
  ASSUME H!TypeOK, NEW k \in Keys, H!Ensure(k)
  PROVE  mark' = mark
  BY DEF H!Ensure

(* A call of c moves on or ends; those of others do not notice.            *)
MarkMoves(c) ==
    \/ \E k \in Keys, o \in H!Outcomes : H!MarkBegin(c, k, o)
    \/ H!MarkReset(c) \/ H!MarkRecheck(c) \/ H!MarkRead(c) \/ H!MarkWrite(c) \/ H!MarkAbort(c)

LEMMA OneMarks ==
  ASSUME H!TypeOK, NEW c \in Requests \cup Probers, MarkMoves(c)
  PROVE  \A d \in Requests \cup Probers : d # c => mark'[d] = mark[d]
  BY DEF MarkMoves, H!TypeOK, H!MarkBegin, H!MarkReset, H!MarkRecheck, H!MarkRead, H!MarkWrite,
         H!MarkAbort

LEMMA RestTypeStep ==
  ASSUME SlotTypeOK, RestTypeOK, H!TypeOK, H!TypeOK', [Next]_gatewayVars
  PROVE  RestTypeOK'
  <1> USE DEF SlotTypeOK, RestTypeOK, Pcs, HoldingPcs, At, Goto, Private, healthVars
  <1>0. Zero \in [Keys -> Nat]
    BY DEF Zero
  <1>r. NoRoute \in Route /\ \A ids \in SUBSET Keys : Over(ids) \in Route
    BY <1>0 DEF NoRoute, Over, Route
  <1>1. ASSUME NEW r \in Requests, Step(r) PROVE RestTypeOK'
    <2>1. CASE EnsureCandidate(r)
      <3>1. mark' = mark /\ UNCHANGED <<reply, gone, exists, logs>> /\ pc[r] = "ensure"
        BY <2>1 DEF EnsureCandidate, H!Ensure
      <3>2. PICK k \in Keys : route' = [route EXCEPT ![r].left = @ \ {k}]
        BY <2>1 DEF EnsureCandidate
      <3>3. route' \in [Requests -> Route]
        <4>1. [route[r] EXCEPT !.left = route[r].left \ {k}] \in Route
          BY DEF Route
        <4>2. route' = [route EXCEPT ![r] = [route[r] EXCEPT !.left = route[r].left \ {k}]]
          BY <3>2
        <4> QED
          BY <4>1, <4>2
      <3>4. \E l \in {"query", "ensure"} : pc' = [pc EXCEPT ![r] = l]
        BY <2>1 DEF EnsureCandidate
      <3> QED
        BY <3>1, <3>3, <3>4
    <2>2. CASE QueryCandidates(r)
      <3>1. PICK f \in [Keys -> Nat] : route' = [route EXCEPT ![r].until = f]
        <4>1. \A k \in Keys : keyState[k].until \in Nat
          BY DEF H!TypeOK, H!Row
        <4>2. [k \in Keys |-> IF k \in route[r].ids THEN keyState[k].until ELSE 0] \in [Keys -> Nat]
          BY <4>1
        <4> QED
          BY <2>2, <4>2 DEF QueryCandidates
      <3>2. route' \in [Requests -> Route]
        <4>1. [route[r] EXCEPT !.until = f] \in Route
          BY DEF Route
        <4>2. route' = [route EXCEPT ![r] = [route[r] EXCEPT !.until = f]]
          BY <3>1
        <4> QED
          BY <4>1, <4>2
      <3> QED
        BY <2>2, <3>2 DEF QueryCandidates
    <2>3. CASE ReadClock(r)
      <3>1. PICK S \in SUBSET Keys, f \in [Keys -> Nat], C \in SUBSET Keys :
              route' = [route EXCEPT ![r].left = S, ![r].until = f, ![r].cooling = C]
        <4>1. route[r].ids \in SUBSET Keys
          BY DEF Route
        <4>2. {k \in route[r].ids : now < route[r].until[k]} \in SUBSET Keys
          BY <4>1
        <4> QED
          BY <2>3, <1>0, <4>1, <4>2 DEF ReadClock
      <3>2. route' \in [Requests -> Route]
        <4>1. [route[r] EXCEPT !.left = S, !.until = f, !.cooling = C] \in Route
          BY DEF Route
        <4>2. route' = [route EXCEPT ![r] = [route[r] EXCEPT !.left = S, !.until = f, !.cooling = C]]
          BY <3>1
        <4> QED
          BY <4>1, <4>2
      <3> QED
        BY <2>3, <3>2 DEF ReadClock
    <2>4. CASE ReadInflight(r)
      <3>1. PICK S \in SUBSET Keys, f \in [Keys -> Nat] :
              route' = [route EXCEPT ![r].left = S, ![r].load = f]
        <4>1. PICK k \in Keys :
                route' = [route EXCEPT ![r].left = @ \ {k},
                                       ![r].load = [@ EXCEPT ![k] = inflight[k]]]
          BY <2>4 DEF ReadInflight
        <4>2. route[r].load \in [Keys -> Nat] /\ route[r].left \ {k} \in SUBSET Keys
          BY DEF Route
        <4>3. [route[r].load EXCEPT ![k] = inflight[k]] \in [Keys -> Nat]
          BY <4>2
        <4> QED
          BY <4>1, <4>2, <4>3
      <3>2. route' \in [Requests -> Route]
        <4>1. [route[r] EXCEPT !.left = S, !.load = f] \in Route
          BY DEF Route
        <4>2. route' = [route EXCEPT ![r] = [route[r] EXCEPT !.left = S, !.load = f]]
          BY <3>1
        <4> QED
          BY <4>1, <4>2
      <3>3. \E l \in {"load", "select"} : pc' = [pc EXCEPT ![r] = l]
        BY <2>4 DEF ReadInflight
      <3> QED
        BY <2>4, <3>2, <3>3 DEF ReadInflight
    <2>5. CASE Select(r)
      <3>1. route' = [route EXCEPT ![r].load = Zero]
        BY <2>5 DEF Select
      <3>2. route' \in [Requests -> Route]
        <4>1. [route[r] EXCEPT !.load = Zero] \in Route
          BY <1>0 DEF Route
        <4>2. route' = [route EXCEPT ![r] = [route[r] EXCEPT !.load = Zero]]
          BY <3>1
        <4> QED
          BY <4>1, <4>2
      <3> QED
        BY <2>5, <3>2 DEF Select
    <2>6. CASE NoHealthyKeys(r)
      BY <2>6, <1>r DEF NoHealthyKeys, Reject, Reply, Answers
    <2>7. CASE GetKey(r)
      <3>1. CASE key[r] \in exists
        BY <2>7, <3>1 DEF GetKey
      <3>2. CASE key[r] \notin exists
        <4>1. Reject(r) /\ pc[r] = "get" /\ Private
          BY <2>7, <3>2 DEF GetKey
        <4> QED
          BY <4>1, <1>r DEF Reject, Reply, Answers
      <3> QED
        BY <3>1, <3>2
    <2>8. CASE RoutingFails(r)
      BY <2>8, <1>r DEF RoutingFails, Reject, Reply, Answers
    <2>9. CASE Enter(r)
      BY <2>9 DEF Enter
    <2>10. CASE UpstreamFails(r)
      BY <2>10 DEF UpstreamFails, Reply
    <2>11. CASE Log(r)
      BY <2>11 DEF Log, Reply
    <2>12. CASE Mark(r)
      <3>1. CASE r \in gone
        BY <2>12, <3>1 DEF Mark
      <3>2. CASE r \notin gone
        <4>1. \A d \in Requests \ {r} : mark'[d] = mark[d]
          BY <2>12, <3>2 DEF Mark, H!MarkBegin, H!TypeOK
        <4>2. mark'[r].pc = "ensured"
          BY <2>12, <3>2 DEF Mark, H!MarkBegin, H!TypeOK, H!Opened
        <4> QED
          BY <2>12, <3>2, <4>1, <4>2 DEF Mark
      <3> QED
        BY <3>1, <3>2
    <2>13. CASE MarkGoesOn(r)
      <3>1. \A d \in Requests \ {r} : mark'[d] = mark[d]
        BY <2>13, OneMarks DEF MarkGoesOn, MarkMoves
      <3>2. mark'[r].pc = "idle" <=> mark'[r] = H!NoCall
        <4>1. \/ mark' = [mark EXCEPT ![r] = H!NoCall]
              \/ mark' = [mark EXCEPT ![r].pc = "again"]
              \/ \E k, n, t : mark' = [mark EXCEPT ![r] = H!HasSeen(k, n, t)]
          BY <2>13 DEF MarkGoesOn, H!MarkReset, H!MarkRecheck, H!MarkRead, H!MarkWrite,
                       H!MarkAbort
        <4> QED
          BY <4>1 DEF H!TypeOK, H!Call, H!NoCall, H!HasSeen
      <3>3. /\ pc[r] = "marking" /\ pc' = [pc EXCEPT ![r] = IF mark'[r] = H!NoCall THEN "answer" ELSE "marking"]
            /\ UNCHANGED <<route, reply, gone, exists, logs>>
        BY <2>13 DEF MarkGoesOn
      <3> QED
        BY <3>1, <3>2, <3>3
    <2>14. CASE Answer(r)
      BY <2>14 DEF Answer, Reply, Answers
    <2>15. CASE Leave(r)
      BY <2>15, <1>r DEF Leave
    <2> QED
      BY <1>1, <2>1, <2>2, <2>3, <2>4, <2>5, <2>6, <2>7, <2>8, <2>9, <2>10, <2>11,
         <2>12, <2>13, <2>14, <2>15 DEF Step, Routing, Marking
  <1>2. ASSUME NEW r \in Requests, Outside(r) PROVE RestTypeOK'
    <2>1. ASSUME NEW s \in BOOLEAN, NEW ids \in SUBSET Keys, Arrive(r, s, ids) PROVE RestTypeOK'
      BY <2>1, <1>r DEF Arrive, Reply
    <2>2. CASE NoKeyForModel(r)
      BY <2>2, <1>r DEF NoKeyForModel, Reject, Reply, Answers
    <2>3. CASE StreamStarts(r)
      BY <2>3 DEF StreamStarts, Reply, Answers
    <2>4. CASE UpstreamSucceeds(r)
      <3>1. PICK a \in Answers : reply' = [reply EXCEPT ![r].outcome = "ok", ![r].answer = a]
        BY <2>4 DEF UpstreamSucceeds, Reply, Answers
      <3>2. reply' \in [Requests -> Reply]
        BY <3>1 DEF Reply
      <3>3. pc[r] \in {"streaming", "upstream"}
        BY <2>4 DEF UpstreamSucceeds
      <3> QED
        BY <2>4, <3>2, <3>3 DEF UpstreamSucceeds
    <2>5. CASE ClientLeaves(r)
      BY <2>5 DEF ClientLeaves
    <2> QED
      BY <1>2, <2>1, <2>2, <2>3, <2>4, <2>5 DEF Outside
  <1>3. ASSUME NEW k \in Keys, DeleteKey(k) PROVE RestTypeOK'
    BY <1>3 DEF DeleteKey, requestVars, H!DeleteRow
  <1>4. ASSUME NEW p \in Probers, ProbeMark(p) PROVE RestTypeOK'
    <2>1. \A d \in Requests : mark'[d] = mark[d]
      <3>1. CASE MarkMoves(p)
        BY <3>1, OneMarks, RequestsAssumption
      <3>2. CASE \E k \in Keys : H!Ensure(k)
        BY <3>2, NoMark
      <3> QED
        BY <1>4, <3>1, <3>2 DEF ProbeMark, MarkMoves
    <2> QED
      BY <1>4, <2>1 DEF ProbeMark, requestVars
  <1>5. CASE Restart
    BY <1>5, <1>r DEF Restart, H!NoCall
  <1>6. CASE Tick
    BY <1>6 DEF Tick, requestVars, H!Tick
  <1>7. CASE UNCHANGED gatewayVars
    BY <1>7 DEF gatewayVars
  <1> QED
    BY <1>1, <1>2, <1>3, <1>4, <1>5, <1>6, <1>7 DEF Next, World

LEMMA HistoryStep ==
  ASSUME RestTypeOK, [Next]_gatewayVars
  PROVE  \/ Observe /\ exists' \subseteq exists
         \/ UNCHANGED gatewayVars
  <1>1. ASSUME NEW r \in Requests, Step(r) PROVE Observe /\ exists' = exists
    <2>1. CASE Routing(r)
      BY <2>1 DEF Routing, EnsureCandidate, QueryCandidates, ReadClock, ReadInflight, Select,
                  NoHealthyKeys, GetKey, RoutingFails, Enter, Private
    <2>2. CASE Marking(r)
      BY <2>2 DEF Marking, Mark, MarkGoesOn
    <2>3. CASE UpstreamFails(r) \/ Log(r) \/ Answer(r) \/ Leave(r)
      BY <2>3 DEF UpstreamFails, Log, Answer, Leave, Private
    <2> QED
      BY <1>1, <2>1, <2>2, <2>3 DEF Step
  <1>2. ASSUME NEW r \in Requests, Outside(r) PROVE Observe /\ exists' = exists
    BY <1>2 DEF Outside, Arrive, NoKeyForModel, StreamStarts, UpstreamSucceeds, ClientLeaves, Private
  <1>3. ASSUME NEW k \in Keys, DeleteKey(k) PROVE Observe /\ exists' \subseteq exists
    BY <1>3 DEF DeleteKey
  <1>4. ASSUME NEW p \in Probers, ProbeMark(p) PROVE Observe /\ exists' = exists
    BY <1>4 DEF ProbeMark
  <1>5. CASE Restart \/ Tick
    BY <1>5 DEF Restart, Tick
  <1> QED
    BY <1>1, <1>2, <1>3, <1>4, <1>5 DEF Next, World

LEMMA TypeInit == Init => TypeOK
  <1> SUFFICES ASSUME Init PROVE TypeOK
    OBVIOUS
  <1>1. H!TypeOK
    BY DEF Init, H!Init, H!TypeOK, H!AbsentRow, H!Row, H!Call, H!NoCall, H!Statuses,
           H!Outcomes, H!NoKey
  <1>2. NoRoute \in Route /\ NoReply \in Reply /\ Zero \in [Keys -> Nat]
    BY DEF NoRoute, Over, Route, Zero, NoReply, Reply, Answers
  <1>3. \A r \in Requests : At(r, "marking") <=> mark[r].pc # "idle"
    BY DEF Init, H!Init, H!NoCall, At
  <1> QED
    BY <1>1, <1>2, <1>3, SlotTypeInit DEF TypeOK, Init

LEMMA TypeStep == TypeOK /\ [Next]_gatewayVars => TypeOK'
  <1> SUFFICES ASSUME TypeOK, [Next]_gatewayVars PROVE TypeOK'
    OBVIOUS
  <1>1. SlotTypeOK'
    BY SlotTypeStep DEF TypeOK
  <1>2. H!TypeOK'
    BY HealthStep, HealthTypeStep DEF TypeOK
  <1>3. RestTypeOK'
    BY <1>2, RestTypeStep DEF TypeOK, RestTypeOK
  <1>4. HistoryTypeOK'
    <2>1. CASE UNCHANGED gatewayVars
      BY <2>1 DEF gatewayVars, TypeOK, HistoryTypeOK
    <2>2. CASE Observe
      <3>1. exists' \subseteq Keys
        BY <1>3 DEF RestTypeOK
      <3> QED
        BY <1>2, <2>2, <3>1, HistoryTypeStep DEF TypeOK, HistoryTypeOK
    <2> QED
      BY <2>1, <2>2, HistoryStep DEF TypeOK, RestTypeOK
  <1> QED
    BY <1>1, <1>2, <1>3, <1>4 DEF TypeOK, RestTypeOK, HistoryTypeOK

(* Every variable of the gateway keeps its type, and a Mark call is open   *)
(* exactly for the requests that are marking.                              *)
THEOREM GatewayTyped == Spec => []TypeOK
  BY TypeInit, TypeStep, PTL DEF Spec

(* What is proved of KeyHealth holds of the gateway: its requests, probes  *)
(* and deletions leave the rows consistent, bound every cooldown by its    *)
(* count of failures, and invent no failure.                               *)
THEOREM HealthCarriesOver ==
  Spec => []H!RowConsistent /\ []H!CooldownBounded /\ []H!CountBounded
  <1>1. (H!Init <=> P!Init)
    BY DEF H!Init, P!Init, H!AbsentRow, P!AbsentRow, H!NoCall, P!NoCall, H!NoKey, P!NoKey
  <1>2. (H!RowConsistent <=> P!RowConsistent)
    BY DEF H!RowConsistent, P!RowConsistent
  <1>3. (H!CooldownBounded <=> P!CooldownBounded) /\ (H!CountBounded <=> P!CountBounded)
    BY DEF H!CooldownBounded, P!CooldownBounded, H!FailureCooldown, P!FailureCooldown,
           H!Doublings, P!Doublings, H!CountBounded, P!CountBounded
  <1>4. [H!Next]_(H!healthVars) <=> [P!Next]_(P!healthVars)
    BY SameSteps DEF healthVars, H!healthVars
  <1>5. H!Spec => P!Spec
    BY <1>1, <1>4, PTL DEF H!Spec, P!Spec
  <1>6. P!Spec => []P!RowConsistent /\ []P!CooldownBounded /\ []P!CountBounded
    BY P!RowsAgree, P!CooldownsEndInTime, P!FailuresNotInvented, HealthAssumption
  <1> QED
    BY <1>2, <1>3, <1>5, <1>6, ImplementsKeyHealth, PTL

-----------------------------------------------------------------------------
(* A request knows what of the world it has seen.                          *)

(* The keys that exist all did when r arrived, and what r has read of      *)
(* their cooldowns is not before the earliest it could have read.          *)
RoutingInv(r) ==
    /\ pc[r] \in RoutingPcs => exists \subseteq born[r]
    /\ pc[r] = "enter" => key[r] \in born[r]
    /\ pc[r] = "clock" => \A k \in route[r].ids : due[r][k] <= route[r].until[k]
    /\ pc[r] \in {"load", "select"} =>
          \A k \in route[r].ids \ route[r].cooling : due[r][k] = 0
    /\ pc[r] \in {"get", "enter"} => due[r][key[r]] = 0

(* The outcome is there from the answer of the upstream on, the log row    *)
(* after it, unless the client has left or the key is deleted.             *)
Logged(r) ==
    /\ logs[r] # "none" => logs[r] = reply[r].outcome
    /\ /\ pc[r] \in {"mark", "marking", "answer", "leave", "done"}
       /\ reply[r].outcome # "none" /\ r \notin gone /\ key[r] \in exists
       => logs[r] # "none"

OutcomeInv(r) ==
    /\ pc[r] \in RoutingPcs \cup {"new", "upstream", "streaming"} =>
          reply[r].outcome = "none" /\ logs[r] = "none"
    /\ pc[r] \in {"log", "mark", "marking", "answer"} => reply[r].outcome # "none"
    /\ pc[r] = "log" => logs[r] = "none"
    /\ Logged(r)

(* The Mark call a request has open reports its own outcome for its key.   *)
MarkInv(r) ==
    pc[r] = "marking" =>
        /\ mark[r].key = key[r] /\ mark[r].outcome = Verdict(r)
        /\ mark[r].pc \in {"again", "read"} => mark[r].outcome = "failure"

RequestInv ==
    TypeOK /\ \A r \in Requests : RoutingInv(r) /\ OutcomeInv(r) /\ MarkInv(r)

(* The earliest end of a cooldown falls while r is routed.                 *)
LEMMA DueFalls ==
  ASSUME TypeOK, TypeOK', Observe, NEW r \in Requests, pc[r] \in RoutingPcs, NEW k \in Keys
  PROVE  /\ due[r][k] \in Nat /\ due'[r][k] \in Nat
         /\ due'[r][k] <= due[r][k] /\ due'[r][k] <= keyState'[k].until
         /\ due[r][k] <= now' => due'[r][k] = 0
  <1>1. due'[r][k] = Earliest(k, due[r][k])
    BY DEF Observe, At, RoutingPcs
  <1>2. due[r][k] \in Nat /\ due'[r][k] \in Nat
    BY DEF TypeOK
  <1>3. now' \in Nat /\ keyState'[k].until \in Nat
    BY DEF TypeOK, H!TypeOK, H!Row
  <1> QED
    BY <1>1, <1>2, <1>3 DEF Earliest

LEMMA BornStays ==
  ASSUME Observe, NEW r \in Requests, pc[r] \in RoutingPcs
  PROVE  born'[r] = born[r]
  BY DEF Observe, At, RoutingPcs

(* The requests that do not move keep what they know.                      *)
Still(r) == pc'[r] = pc[r] /\ route'[r] = route[r] /\ key'[r] = key[r]

LEMMA RoutingKept ==
  ASSUME TypeOK, TypeOK', Observe, exists' \subseteq exists, NEW r \in Requests, RoutingInv(r),
         Still(r)
  PROVE  RoutingInv(r)'
  <1>1. CASE pc[r] \notin RoutingPcs
    BY <1>1 DEF RoutingInv, RoutingPcs, Still
  <1>2. CASE pc[r] \in RoutingPcs
    <2>1. born'[r] = born[r]
      BY <1>2, BornStays
    <2>2. now' \in Nat
      BY DEF TypeOK, H!TypeOK
    <2>3. \A k \in Keys : /\ due[r][k] \in Nat /\ due'[r][k] \in Nat
                          /\ due'[r][k] <= due[r][k]
                          /\ due[r][k] = 0 => due'[r][k] = 0
      BY <1>2, <2>2, DueFalls
    <2>4. route[r].ids \subseteq Keys /\ \A k \in Keys : route[r].until[k] \in Nat
      BY DEF TypeOK, Route
    <2>5. pc[r] \in {"get", "enter"} => key[r] \in Keys
      BY DEF TypeOK, SlotTypeOK
    <2>6. pc[r] = "clock" => \A k \in route[r].ids : due'[r][k] <= route[r].until[k]
      BY <2>3, <2>4 DEF RoutingInv
    <2>7. pc[r] \in {"load", "select"} =>
             \A k \in route[r].ids \ route[r].cooling : due'[r][k] = 0
      BY <2>3, <2>4 DEF RoutingInv
    <2>8. pc[r] \in {"get", "enter"} => due'[r][key[r]] = 0
      BY <2>3, <2>5 DEF RoutingInv
    <2> QED
      BY <2>1, <2>6, <2>7, <2>8 DEF RoutingInv, Still
  <1> QED
    BY <1>1, <1>2

(* A request that has not been routed yet, or that has been, knows nothing. *)
LEMMA NotRouted ==
  ASSUME NEW r \in Requests, pc'[r] \notin RoutingPcs
  PROVE  RoutingInv(r)'
  BY DEF RoutingInv, RoutingPcs

LEMMA OutcomeKept ==
  ASSUME NEW r \in Requests, OutcomeInv(r), pc'[r] = pc[r], key'[r] = key[r],
         reply'[r].outcome = reply[r].outcome, exists' \subseteq exists, gone \subseteq gone',
         logs'[r] = logs[r] \/ (logs'[r] = "none" /\ key[r] \notin exists')
  PROVE  OutcomeInv(r)'
  BY DEF OutcomeInv, Logged

LEMMA MarkKept ==
  ASSUME NEW r \in Requests, MarkInv(r), pc'[r] = pc[r], key'[r] = key[r], reply'[r] = reply[r],
         mark'[r] = mark[r]
  PROVE  MarkInv(r)'
  BY DEF MarkInv, Verdict

(* The others do not move while r does.                                    *)
LEMMA OthersWait ==
  ASSUME TypeOK, NEW r \in Requests, Step(r) \/ Outside(r), NEW q \in Requests, q # r
  PROVE  Still(q) /\ reply'[q] = reply[q] /\ logs'[q] = logs[q] /\ mark'[q] = mark[q]
  <1> USE DEF TypeOK, SlotTypeOK, Still, Goto, Private, Reject, healthVars
  <1>1. CASE Routing(r)
    <2>1. CASE EnsureCandidate(r)
      BY <2>1 DEF EnsureCandidate, H!Ensure
    <2>2. CASE QueryCandidates(r) \/ ReadClock(r) \/ ReadInflight(r) \/ Select(r)
      BY <2>2 DEF QueryCandidates, ReadClock, ReadInflight, Select
    <2>3. CASE NoHealthyKeys(r) \/ GetKey(r) \/ RoutingFails(r) \/ Enter(r)
      BY <2>3 DEF NoHealthyKeys, GetKey, RoutingFails, Enter
    <2> QED
      BY <1>1, <2>1, <2>2, <2>3 DEF Routing
  <1>2. CASE UpstreamFails(r) \/ Log(r) \/ Answer(r) \/ Leave(r)
    BY <1>2 DEF UpstreamFails, Log, Answer, Leave
  <1>3. CASE Mark(r)
    BY <1>3 DEF Mark, H!MarkBegin, H!TypeOK
  <1>4. CASE MarkGoesOn(r)
    <2>1. mark'[q] = mark[q]
      BY <1>4, OneMarks DEF MarkGoesOn, MarkMoves
    <2> QED
      BY <1>4, <2>1 DEF MarkGoesOn
  <1>5. CASE Outside(r)
    BY <1>5 DEF Outside, Arrive, NoKeyForModel, StreamStarts, UpstreamSucceeds, ClientLeaves
  <1> QED
    BY <1>1, <1>2, <1>3, <1>4, <1>5 DEF Step, Marking

(* What is read of the world on the way to a key.                          *)
LEMMA RoutingStep ==
  ASSUME RequestInv, TypeOK', NEW r \in Requests, Step(r) \/ Outside(r),
         Observe, exists' = exists
  PROVE  RoutingInv(r)'
  <1> USE DEF At, Goto
  <1>1. pc \in [Requests -> Pcs] /\ key \in [Requests -> Keys \cup {H!NoKey}]
        /\ route \in [Requests -> Route] /\ RoutingInv(r) /\ TypeOK /\ now \in Nat
    BY DEF RequestInv, TypeOK, SlotTypeOK, H!TypeOK
  <1>2. pc[r] \in RoutingPcs => born'[r] = born[r] /\ exists' \subseteq born'[r]
    BY <1>1, BornStays DEF RoutingInv
  <1>3. pc[r] \in RoutingPcs =>
          \A k \in Keys : /\ due[r][k] \in Nat /\ due'[r][k] \in Nat
                          /\ due'[r][k] <= keyState'[k].until
                          /\ due[r][k] <= now' => due'[r][k] = 0
    BY <1>1, DueFalls
  <1>4. route[r].ids \subseteq Keys /\ \A k \in Keys : route[r].until[k] \in Nat
    BY <1>1 DEF Route
  <1>5. CASE EnsureCandidate(r)
    <2>1. pc[r] \in RoutingPcs /\ pc'[r] \in {"ensure", "query"}
      BY <1>1, <1>5 DEF EnsureCandidate, RoutingPcs
    <2> QED
      BY <1>2, <2>1 DEF RoutingInv
  <1>6. CASE QueryCandidates(r)
    <2>1. pc[r] \in RoutingPcs /\ pc'[r] = "clock" /\ keyState' = keyState
      BY <1>1, <1>6 DEF QueryCandidates, RoutingPcs, Private, healthVars
    <2>2. route'[r].ids = route[r].ids /\ \A k \in route[r].ids : route'[r].until[k] = keyState[k].until
      BY <1>1, <1>4, <1>6 DEF QueryCandidates, Route
    <2>3. \A k \in route'[r].ids : due'[r][k] <= route'[r].until[k]
      BY <1>3, <1>4, <2>1, <2>2
    <2> QED
      BY <1>2, <2>1, <2>3 DEF RoutingInv
  <1>7. CASE ReadClock(r)
    <2>1. pc[r] = "clock" /\ pc'[r] = "load" /\ now' = now
      BY <1>1, <1>7 DEF ReadClock, Private, healthVars
    <2>2. /\ route'[r].ids = route[r].ids
          /\ route'[r].cooling = {k \in route[r].ids : now < route[r].until[k]}
      BY <1>1, <1>7 DEF ReadClock, Route
    <2>3. \A k \in route[r].ids : due[r][k] <= route[r].until[k]
      BY <1>1, <2>1 DEF RoutingInv
    <2>4. pc[r] \in RoutingPcs
      BY <2>1 DEF RoutingPcs
    <2>5. \A k \in route'[r].ids \ route'[r].cooling : due'[r][k] = 0
      BY <1>1, <1>3, <1>4, <2>1, <2>2, <2>3, <2>4
    <2> QED
      BY <1>2, <2>1, <2>4, <2>5 DEF RoutingInv
  <1>8. CASE ReadInflight(r)
    <2>1. pc[r] = "load" /\ pc'[r] \in {"load", "select"} /\ now' = now
      BY <1>1, <1>8 DEF ReadInflight, Private, healthVars
    <2>2. route'[r].ids = route[r].ids /\ route'[r].cooling = route[r].cooling
      BY <1>1, <1>8 DEF ReadInflight, Route
    <2>3. pc[r] \in RoutingPcs
      BY <2>1 DEF RoutingPcs
    <2>4. \A k \in route'[r].ids \ route'[r].cooling : due'[r][k] = 0
      BY <1>1, <1>3, <1>4, <2>1, <2>2, <2>3 DEF RoutingInv
    <2> QED
      BY <1>2, <2>1, <2>3, <2>4 DEF RoutingInv
  <1>9. CASE Select(r)
    <2>1. pc[r] = "select" /\ pc'[r] = "get" /\ now' = now
      BY <1>1, <1>9 DEF Select, Private, healthVars
    <2>2. key'[r] \in route[r].ids \ route[r].cooling
      BY <1>1, <1>9 DEF Select, Selected
    <2>3. pc[r] \in RoutingPcs
      BY <2>1 DEF RoutingPcs
    <2>4. due'[r][key'[r]] = 0
      BY <1>1, <1>3, <1>4, <2>1, <2>2, <2>3 DEF RoutingInv
    <2> QED
      BY <1>2, <2>1, <2>3, <2>4 DEF RoutingInv
  <1>10. CASE GetKey(r)
    <2>1. CASE key[r] \in exists
      <3>1. pc[r] = "get" /\ pc'[r] = "enter" /\ now' = now /\ key' = key
        BY <1>1, <1>10, <2>1 DEF GetKey, Private, healthVars
      <3>2. pc[r] \in RoutingPcs /\ key[r] \in Keys
        BY <1>1, <3>1 DEF RoutingPcs, TypeOK, SlotTypeOK
      <3>3. due'[r][key'[r]] = 0
        BY <1>1, <1>3, <3>1, <3>2 DEF RoutingInv
      <3> QED
        BY <1>2, <2>1, <3>1, <3>2, <3>3 DEF RoutingInv
    <2>2. CASE key[r] \notin exists
      BY <1>1, <1>10, <2>2, NotRouted DEF GetKey, Reject, RoutingPcs
    <2> QED
      BY <2>1, <2>2
  <1>11. CASE NoHealthyKeys(r) \/ RoutingFails(r) \/ Enter(r)
    BY <1>1, <1>11, NotRouted DEF NoHealthyKeys, RoutingFails, Enter, Reject, RoutingPcs
  <1>12. CASE UpstreamFails(r) \/ Log(r) \/ Marking(r) \/ Answer(r) \/ Leave(r)
    <2>1. CASE UpstreamFails(r) \/ Log(r) \/ Answer(r) \/ Leave(r)
      BY <1>1, <2>1, NotRouted DEF UpstreamFails, Log, Answer, Leave, RoutingPcs
    <2>2. CASE Marking(r)
      <3>1. \E l \in {"marking", "answer"} : pc' = [pc EXCEPT ![r] = l]
        BY <2>2 DEF Marking, Mark, MarkGoesOn
      <3> QED
        BY <1>1, <3>1, NotRouted DEF RoutingPcs
    <2> QED
      BY <1>12, <2>1, <2>2
  <1>13. ASSUME NEW s \in BOOLEAN, NEW ids \in SUBSET Keys, Arrive(r, s, ids)
         PROVE  RoutingInv(r)'
    <2>1. pc[r] = "new" /\ pc'[r] = "ensure"
      BY <1>1, <1>13 DEF Arrive
    <2>2. born'[r] = exists'
      BY <2>1 DEF Observe, RoutingPcs
    <2> QED
      BY <2>1, <2>2 DEF RoutingInv
  <1>14. CASE NoKeyForModel(r) \/ StreamStarts(r) \/ UpstreamSucceeds(r)
    BY <1>1, <1>14, NotRouted DEF NoKeyForModel, StreamStarts, UpstreamSucceeds, Reject, RoutingPcs
  <1>15. CASE ClientLeaves(r)
    <2>1. Still(r)
      BY <1>15 DEF ClientLeaves, Still
    <2> QED
      BY <1>1, <2>1, RoutingKept
  <1> QED
    BY <1>5, <1>6, <1>7, <1>8, <1>9, <1>10, <1>11, <1>12, <1>13, <1>14, <1>15
       DEF Step, Routing, Outside

(* What became of a request, and that its log row tells it.                *)
LEMMA OutcomeStep ==
  ASSUME RequestInv, TypeOK', NEW r \in Requests, Step(r) \/ Outside(r), exists' = exists
  PROVE  OutcomeInv(r)'
  <1> USE DEF At, Goto, OutcomeInv, Logged, RoutingPcs
  <1>1. /\ pc \in [Requests -> Pcs] /\ key \in [Requests -> Keys \cup {H!NoKey}]
        /\ reply \in [Requests -> Reply] /\ OutcomeInv(r)
        /\ logs \in [Requests -> {"none", "ok", "error"}]
    BY DEF RequestInv, TypeOK, SlotTypeOK
  <1>2. reply[r].outcome \in {"none", "ok", "error"}
    BY <1>1 DEF Reply
  <1>3. CASE Routing(r)
    <2>1. logs' = logs
      BY <1>3 DEF Routing, EnsureCandidate, QueryCandidates, ReadClock, ReadInflight, Select,
                  NoHealthyKeys, GetKey, RoutingFails, Enter, Private
    <2>2. pc[r] \in RoutingPcs
      BY <1>3 DEF Routing, EnsureCandidate, QueryCandidates, ReadClock, ReadInflight, Select,
                  NoHealthyKeys, GetKey, RoutingFails, Enter
    <2>3. reply'[r].outcome = reply[r].outcome
      BY <1>1, <1>3 DEF Routing, EnsureCandidate, QueryCandidates, ReadClock, ReadInflight, Select,
                  NoHealthyKeys, GetKey, RoutingFails, Enter, Reject, Reply
    <2>4. pc'[r] \in RoutingPcs \cup {"done", "upstream"}
      <3>1. CASE EnsureCandidate(r)
        BY <1>1, <3>1 DEF EnsureCandidate
      <3>2. CASE ReadInflight(r)
        BY <1>1, <3>2 DEF ReadInflight
      <3>3. CASE GetKey(r)
        BY <1>1, <3>3 DEF GetKey, Reject
      <3>4. CASE QueryCandidates(r) \/ ReadClock(r) \/ Select(r) \/ Enter(r)
        BY <1>1, <3>4 DEF QueryCandidates, ReadClock, Select, Enter
      <3>5. CASE NoHealthyKeys(r) \/ RoutingFails(r)
        BY <1>1, <3>5 DEF NoHealthyKeys, RoutingFails, Reject
      <3> QED
        BY <1>3, <3>1, <3>2, <3>3, <3>4, <3>5 DEF Routing
    <2> QED
      BY <1>1, <2>1, <2>2, <2>3, <2>4
  <1>4. CASE UpstreamFails(r)
    <2>1. pc'[r] = "log" /\ reply'[r].outcome = "error" /\ logs' = logs
      BY <1>1, <1>4 DEF UpstreamFails, Reply, Private
    <2> QED
      BY <1>1, <1>4, <2>1 DEF UpstreamFails
  <1>5. CASE Log(r)
    <2>1. /\ pc[r] = "log" /\ pc'[r] = "mark" /\ reply' = reply /\ gone' = gone
          /\ logs'[r] = IF r \in gone THEN logs[r] ELSE reply[r].outcome
      BY <1>1, <1>5 DEF Log
    <2> QED
      BY <1>1, <1>2, <2>1
  <1>6. CASE Marking(r)
    <2>1. /\ \E l \in {"marking", "answer"} : pc' = [pc EXCEPT ![r] = l]
          /\ UNCHANGED <<reply, key, gone, logs>> /\ pc[r] \in {"mark", "marking"}
      BY <1>6 DEF Marking, Mark, MarkGoesOn
    <2> QED
      BY <1>1, <2>1
  <1>7. CASE Answer(r)
    <2>1. /\ pc[r] = "answer" /\ pc'[r] = "leave" /\ reply'[r].outcome = reply[r].outcome
          /\ UNCHANGED <<key, gone, logs>>
      BY <1>1, <1>7 DEF Answer, Private, Reply
    <2> QED
      BY <1>1, <2>1
  <1>8. CASE Leave(r)
    <2>1. pc[r] = "leave" /\ pc'[r] = "done" /\ UNCHANGED <<reply, key, gone, logs>>
      BY <1>1, <1>8 DEF Leave
    <2> QED
      BY <1>1, <2>1
  <1>9. CASE Outside(r)
    <2>1. ASSUME NEW s \in BOOLEAN, NEW ids \in SUBSET Keys, Arrive(r, s, ids)
          PROVE  OutcomeInv(r)'
      <3>1. pc[r] = "new" /\ pc'[r] = "ensure" /\ reply'[r].outcome = reply[r].outcome /\ logs' = logs
        BY <1>1, <2>1 DEF Arrive, Private, Reply
      <3> QED
        BY <1>1, <3>1
    <2>2. CASE NoKeyForModel(r)
      <3>1. pc[r] = "new" /\ pc'[r] = "done" /\ reply'[r].outcome = reply[r].outcome /\ logs' = logs
        BY <1>1, <2>2 DEF NoKeyForModel, Reject, Private, Reply
      <3> QED
        BY <1>1, <3>1
    <2>3. CASE StreamStarts(r)
      <3>1. /\ pc[r] = "upstream" /\ pc'[r] = "streaming"
            /\ reply'[r].outcome = reply[r].outcome /\ logs' = logs
        BY <1>1, <2>3 DEF StreamStarts, Private, Reply
      <3> QED
        BY <1>1, <3>1
    <2>4. CASE UpstreamSucceeds(r)
      <3>1. pc[r] \in {"upstream", "streaming"} /\ pc'[r] = "log" /\ logs' = logs
        BY <1>1, <2>4 DEF UpstreamSucceeds, Private
      <3>2. reply'[r].outcome = "ok"
        BY <1>1, <2>4 DEF UpstreamSucceeds, Reply
      <3> QED
        BY <1>1, <3>1, <3>2
    <2>5. CASE ClientLeaves(r)
      BY <1>1, <2>5, OutcomeKept DEF ClientLeaves, Private
    <2> QED
      BY <1>9, <2>1, <2>2, <2>3, <2>4, <2>5 DEF Outside
  <1> QED
    BY <1>3, <1>4, <1>5, <1>6, <1>7, <1>8, <1>9 DEF Step

(* What a request reports of its key.                                      *)
LEMMA MarkStep ==
  ASSUME RequestInv, TypeOK', NEW r \in Requests, Step(r) \/ Outside(r)
  PROVE  MarkInv(r)'
  <1> USE DEF At, Goto
  <1>1. /\ pc \in [Requests -> Pcs] /\ MarkInv(r) /\ H!TypeOK
        /\ mark \in [Requests \cup Probers -> H!Call]
    BY DEF RequestInv, TypeOK, SlotTypeOK, H!TypeOK
  <1>2. ASSUME pc'[r] # "marking" PROVE MarkInv(r)'
    BY <1>2 DEF MarkInv
  <1>3. CASE Mark(r)
    <2>1. CASE r \in gone
      BY <1>1, <1>2, <1>3, <2>1 DEF Mark
    <2>2. CASE r \notin gone
      <3>1. mark'[r] = H!Opened(key[r], Verdict(r)) /\ UNCHANGED <<key, reply>>
        BY <1>1, <1>3, <2>2 DEF Mark, H!MarkBegin
      <3> QED
        BY <3>1 DEF MarkInv, H!Opened, Verdict
    <2> QED
      BY <2>1, <2>2
  <1>4. CASE MarkGoesOn(r)
    <2>1. pc[r] = "marking" /\ UNCHANGED <<key, reply>>
      BY <1>4 DEF MarkGoesOn
    <2>2. /\ mark[r].key = key[r] /\ mark[r].outcome = Verdict(r)
          /\ mark[r].pc \in {"again", "read"} => mark[r].outcome = "failure"
      BY <1>1, <2>1 DEF MarkInv
    <2>3. CASE mark'[r] = H!NoCall
      BY <1>1, <1>2, <1>4, <2>3 DEF MarkGoesOn
    <2>4. CASE H!MarkRecheck(r)
      <3>1. mark'[r].pc = "again" /\ mark'[r].key = mark[r].key /\ mark'[r].outcome = "failure"
            /\ mark[r].outcome = "failure"
        BY <1>1, <2>4 DEF H!MarkRecheck, H!Call
      <3> QED
        BY <2>1, <2>2, <3>1 DEF MarkInv, Verdict
    <2>5. CASE H!MarkRead(r) /\ mark'[r] # H!NoCall
      <3>1. mark[r].pc = "again" /\ \E n, t : mark'[r] = H!HasSeen(mark[r].key, n, t)
        BY <1>1, <2>5 DEF H!MarkRead
      <3>2. mark'[r].key = mark[r].key /\ mark'[r].outcome = "failure"
        BY <3>1 DEF H!HasSeen
      <3> QED
        BY <2>1, <2>2, <3>1, <3>2 DEF MarkInv, Verdict
    <2>6. CASE H!MarkAbort(r) \/ H!MarkReset(r) \/ H!MarkWrite(r)
      <3>1. mark'[r] = H!NoCall
        BY <1>1, <2>6 DEF H!MarkAbort, H!MarkReset, H!MarkWrite
      <3> QED
        BY <2>3, <3>1
    <2> QED
      BY <1>4, <2>3, <2>4, <2>5, <2>6 DEF MarkGoesOn
  <1>5. CASE Routing(r)
    <2>1. pc'[r] # "marking"
      <3>1. CASE EnsureCandidate(r)
        BY <1>1, <3>1 DEF EnsureCandidate
      <3>2. CASE ReadInflight(r)
        BY <1>1, <3>2 DEF ReadInflight
      <3>3. CASE GetKey(r)
        BY <1>1, <3>3 DEF GetKey, Reject
      <3>4. CASE QueryCandidates(r) \/ ReadClock(r) \/ Select(r) \/ Enter(r)
        BY <1>1, <3>4 DEF QueryCandidates, ReadClock, Select, Enter
      <3>5. CASE NoHealthyKeys(r) \/ RoutingFails(r)
        BY <1>1, <3>5 DEF NoHealthyKeys, RoutingFails, Reject
      <3> QED
        BY <1>5, <3>1, <3>2, <3>3, <3>4, <3>5 DEF Routing
    <2> QED
      BY <1>2, <2>1
  <1>6. CASE UpstreamFails(r) \/ Log(r) \/ Answer(r) \/ Leave(r)
    BY <1>1, <1>2, <1>6 DEF UpstreamFails, Log, Answer, Leave
  <1>7. CASE Outside(r)
    <2>1. CASE ClientLeaves(r)
      BY <1>1, <2>1, MarkKept DEF ClientLeaves, Private, healthVars
    <2>2. CASE ~ClientLeaves(r)
      BY <1>1, <1>2, <1>7, <2>2 DEF Outside, Arrive, NoKeyForModel, StreamStarts,
                                    UpstreamSucceeds, Reject
    <2> QED
      BY <2>1, <2>2
  <1> QED
    BY <1>3, <1>4, <1>5, <1>6, <1>7 DEF Step, Marking

-----------------------------------------------------------------------------
LEMMA RequestInvInit == Init => RequestInv
  <1> SUFFICES ASSUME Init, NEW r \in Requests PROVE RoutingInv(r) /\ OutcomeInv(r) /\ MarkInv(r)
    BY TypeInit DEF RequestInv
  <1>1. pc[r] = "new" /\ reply[r].outcome = "none" /\ logs[r] = "none"
    BY DEF Init, NoReply
  <1> QED
    BY <1>1 DEF RoutingInv, OutcomeInv, Logged, MarkInv, RoutingPcs

LEMMA RequestInvStep == RequestInv /\ [Next]_gatewayVars => RequestInv'
  <1> SUFFICES ASSUME RequestInv, [Next]_gatewayVars PROVE RequestInv'
    OBVIOUS
  <1>1. TypeOK /\ TypeOK'
    BY TypeStep DEF RequestInv
  <1>2. (Observe /\ exists' \subseteq exists) \/ UNCHANGED gatewayVars
    BY <1>1, HistoryStep DEF TypeOK, RestTypeOK
  <1>3. CASE UNCHANGED gatewayVars
    BY <1>1, <1>3 DEF gatewayVars, RequestInv, RoutingInv, OutcomeInv, Logged, MarkInv, Verdict
  <1>4. ASSUME Observe, exists' \subseteq exists, NEW r \in Requests, Step(r) \/ Outside(r)
        PROVE  RequestInv'
    <2>1. exists' = exists
      <3>1. CASE Routing(r)
        BY <3>1 DEF Routing, EnsureCandidate, QueryCandidates, ReadClock, ReadInflight, Select,
                    NoHealthyKeys, GetKey, RoutingFails, Enter, Private
      <3>2. CASE Marking(r)
        BY <3>2 DEF Marking, Mark, MarkGoesOn
      <3>3. CASE UpstreamFails(r) \/ Log(r) \/ Answer(r) \/ Leave(r) \/ Outside(r)
        BY <3>3 DEF UpstreamFails, Log, Answer, Leave, Outside, Arrive, NoKeyForModel,
                    StreamStarts, UpstreamSucceeds, ClientLeaves, Private
      <3> QED
        BY <1>4, <3>1, <3>2, <3>3 DEF Step
    <2>2. RoutingInv(r)' /\ OutcomeInv(r)' /\ MarkInv(r)'
      BY <1>1, <1>4, <2>1, RoutingStep, OutcomeStep, MarkStep
    <2>3. gone \subseteq gone'
      <3>1. CASE Routing(r)
        BY <3>1 DEF Routing, EnsureCandidate, QueryCandidates, ReadClock, ReadInflight, Select,
                    NoHealthyKeys, GetKey, RoutingFails, Enter, Reject
      <3>2. CASE Marking(r)
        BY <3>2 DEF Marking, Mark, MarkGoesOn
      <3>3. CASE UpstreamFails(r) \/ Log(r) \/ Answer(r) \/ Leave(r) \/ Outside(r)
        BY <3>3 DEF UpstreamFails, Log, Answer, Leave, Outside, Arrive, NoKeyForModel,
                    StreamStarts, UpstreamSucceeds, ClientLeaves, Reject
      <3> QED
        BY <1>4, <3>1, <3>2, <3>3 DEF Step
    <2>4. ASSUME NEW q \in Requests, q # r
          PROVE  RoutingInv(q)' /\ OutcomeInv(q)' /\ MarkInv(q)'
      <3>1. RoutingInv(q) /\ OutcomeInv(q) /\ MarkInv(q)
        BY DEF RequestInv
      <3>2. Still(q) /\ reply'[q] = reply[q] /\ logs'[q] = logs[q] /\ mark'[q] = mark[q]
        BY <1>1, <1>4, <2>4, OthersWait
      <3>3. RoutingInv(q)'
        BY <1>1, <1>4, <3>1, <3>2, RoutingKept
      <3>4. OutcomeInv(q)'
        BY <1>4, <2>3, <3>1, <3>2, OutcomeKept DEF Still
      <3>5. MarkInv(q)'
        BY <3>1, <3>2, MarkKept DEF Still
      <3> QED
        BY <3>3, <3>4, <3>5
    <2> QED
      BY <1>1, <2>2, <2>4 DEF RequestInv
  <1>5. ASSUME Observe, exists' \subseteq exists, UNCHANGED requestVars,
               \A q \in Requests : mark'[q] = mark[q],
               \A q \in Requests : \/ logs'[q] = logs[q]
                                   \/ logs'[q] = "none" /\ key[q] \notin exists'
        PROVE  RequestInv'
    <2> SUFFICES ASSUME NEW q \in Requests PROVE RoutingInv(q)' /\ OutcomeInv(q)' /\ MarkInv(q)'
      BY <1>1 DEF RequestInv
    <2>1. RoutingInv(q) /\ OutcomeInv(q) /\ MarkInv(q)
      BY DEF RequestInv
    <2>2. Still(q) /\ reply' = reply /\ gone' = gone
      BY <1>5 DEF Still, requestVars
    <2>3. RoutingInv(q)'
      BY <1>1, <1>5, <2>1, <2>2, RoutingKept
    <2>4. OutcomeInv(q)'
      BY <1>5, <2>1, <2>2, OutcomeKept DEF Still
    <2>5. MarkInv(q)'
      BY <1>5, <2>1, <2>2, MarkKept DEF Still
    <2> QED
      BY <2>3, <2>4, <2>5
  <1>6. ASSUME Observe, NEW k \in Keys, DeleteKey(k) PROVE RequestInv'
    <2>1. \A q \in Requests : logs'[q] = logs[q] \/ (logs'[q] = "none" /\ key[q] \notin exists')
      BY <1>6 DEF DeleteKey
    <2> QED
      BY <1>5, <1>6, <2>1 DEF DeleteKey, H!DeleteRow
  <1>7. ASSUME Observe, NEW p \in Probers, ProbeMark(p) PROVE RequestInv'
    <2>1. \A q \in Requests : mark'[q] = mark[q]
      <3>1. H!TypeOK
        BY <1>1 DEF TypeOK
      <3>2. CASE MarkMoves(p)
        BY <3>1, <3>2, OneMarks, RequestsAssumption
      <3>3. CASE \E k \in Keys : H!Ensure(k)
        BY <3>1, <3>3, NoMark
      <3> QED
        BY <1>7, <3>2, <3>3 DEF ProbeMark, MarkMoves
    <2> QED
      BY <1>5, <1>7, <2>1 DEF ProbeMark
  <1>8. ASSUME Observe, Tick PROVE RequestInv'
    BY <1>5, <1>8 DEF Tick, H!Tick
  <1>9. ASSUME Observe, Restart PROVE RequestInv'
    <2> SUFFICES ASSUME NEW q \in Requests PROVE RoutingInv(q)' /\ OutcomeInv(q)' /\ MarkInv(q)'
      BY <1>1 DEF RequestInv
    <2>1. /\ pc'[q] = IF pc[q] = "new" THEN "new" ELSE "done"
          /\ gone' = gone \cup {r \in Requests : pc[r] \notin {"new", "done"}}
          /\ UNCHANGED <<key, reply, logs, exists>>
      BY <1>9 DEF Restart, At
    <2>2. RoutingInv(q)' /\ MarkInv(q)'
      BY <2>1, NotRouted DEF RoutingPcs, MarkInv
    <2>3. OutcomeInv(q)
      BY DEF RequestInv
    <2>4. OutcomeInv(q)'
      BY <2>1, <2>3 DEF OutcomeInv, Logged, RoutingPcs
    <2> QED
      BY <2>2, <2>4
  <1> QED
    BY <1>2, <1>3, <1>4, <1>6, <1>7, <1>8, <1>9 DEF Next, World

LEMMA RequestInvariant == Spec => []RequestInv
  BY RequestInvInit, RequestInvStep, PTL DEF Spec

(* No request is sent to a key within a cooldown that began before it      *)
(* arrived, however often it reads and whoever writes in between.          *)
THEOREM CooldownsRespected == Spec => []CooldownRespected
  <1>1. RequestInv => CooldownRespected
    BY DEF RequestInv, RoutingInv, CooldownRespected, At
  <1> QED
    BY <1>1, RequestInvariant, PTL

(* Nor to a key that was deleted before it arrived.                        *)
THEOREM DeletedKeysUnused == Spec => []DeletedNeverUsed
  <1>1. RequestInv => DeletedNeverUsed
    BY DEF RequestInv, RoutingInv, DeletedNeverUsed, At
  <1> QED
    BY <1>1, RequestInvariant, PTL

(* The log rows tell what became of the requests, and of those that end    *)
(* with their client there and their key not deleted none is missing.      *)
THEOREM LogsTell == Spec => []LogFaithful
  <1>1. RequestInv => LogFaithful
    BY DEF RequestInv, OutcomeInv, Logged, LogFaithful
  <1> QED
    BY <1>1, RequestInvariant, PTL

OnlyVerdict ==
    \A k \in Keys : H!RecordsFailure(k) =>
        \/ \E p \in Probers : mark[p].pc = "read" /\ mark[p].key = k
        \/ \E r \in Requests : /\ mark[r].pc = "read" /\ key[r] = k
                               /\ reply[r].outcome = "error" /\ r \notin gone

(* Failures are recorded by MarkWrite only.                                *)
LEMMA WriteRecords ==
  ASSUME H!TypeOK, NEW c \in Requests \cup Probers, H!MarkWrite(c),
         NEW k \in Keys, H!RecordsFailure(k)
  PROVE  mark[c].pc = "read" /\ mark[c].key = k
  BY DEF H!TypeOK, H!MarkWrite, H!RecordsFailure

LEMMA OnlyVerdictStep == RequestInv /\ [Next]_gatewayVars => OnlyVerdict
  <1> SUFFICES ASSUME RequestInv, [Next]_gatewayVars, NEW k \in Keys, H!RecordsFailure(k)
               PROVE  \/ \E p \in Probers : mark[p].pc = "read" /\ mark[p].key = k
                      \/ \E r \in Requests : /\ mark[r].pc = "read" /\ key[r] = k
                                             /\ reply[r].outcome = "error" /\ r \notin gone
    BY DEF OnlyVerdict
  <1>1. H!TypeOK /\ reply \in [Requests -> Reply]
    BY DEF RequestInv, TypeOK
  <1>2. recorded' # recorded
    BY DEF H!RecordsFailure
  <1>3. ASSUME NEW p \in Probers, ProbeMark(p)
        PROVE  \E q \in Probers : mark[q].pc = "read" /\ mark[q].key = k
    <2>1. H!MarkWrite(p)
      BY <1>2, <1>3 DEF ProbeMark, H!MarkBegin, H!MarkReset, H!MarkRecheck, H!MarkRead,
                        H!MarkAbort, H!Ensure
    <2> QED
      BY <1>1, <2>1, WriteRecords
  <1>4. ASSUME NEW r \in Requests, MarkGoesOn(r)
        PROVE  /\ mark[r].pc = "read" /\ key[r] = k
               /\ reply[r].outcome = "error" /\ r \notin gone
    <2>1. H!MarkWrite(r) /\ pc[r] = "marking" /\ r \notin gone
      BY <1>2, <1>4 DEF MarkGoesOn, H!MarkReset, H!MarkRecheck, H!MarkRead, H!MarkAbort, At
    <2>2. mark[r].pc = "read" /\ mark[r].key = k
      BY <1>1, <2>1, WriteRecords
    <2>3. mark[r].key = key[r] /\ Verdict(r) = "failure" /\ reply[r].outcome # "none"
      BY <2>1, <2>2 DEF RequestInv, MarkInv, OutcomeInv
    <2>4. reply[r].outcome = "error"
      BY <1>1, <2>3 DEF Verdict, Reply
    <2> QED
      BY <2>1, <2>2, <2>3, <2>4
  <1>5. ASSUME NEW r \in Requests, Step(r) \/ Outside(r), ~MarkGoesOn(r) PROVE FALSE
    <2>1. CASE Routing(r)
      BY <1>2, <2>1 DEF Routing, EnsureCandidate, QueryCandidates, ReadClock, ReadInflight, Select,
                  NoHealthyKeys, GetKey, RoutingFails, Enter, Private, healthVars, H!Ensure
    <2>2. CASE Mark(r)
      BY <1>2, <2>2 DEF Mark, H!MarkBegin, healthVars
    <2>3. CASE UpstreamFails(r) \/ Log(r) \/ Answer(r) \/ Leave(r)
      BY <1>2, <2>3 DEF UpstreamFails, Log, Answer, Leave, Private, healthVars
    <2>4. CASE Outside(r)
      BY <1>2, <2>4 DEF Outside, Arrive, NoKeyForModel, StreamStarts, UpstreamSucceeds,
                        ClientLeaves, Private, healthVars
    <2> QED
      BY <1>5, <2>1, <2>2, <2>3, <2>4 DEF Step, Marking
  <1>6. ~Restart /\ ~Tick /\ ~UNCHANGED gatewayVars /\ \A l \in Keys : ~DeleteKey(l)
    BY <1>2 DEF Restart, Tick, H!Tick, gatewayVars, DeleteKey, H!DeleteRow
  <1> QED
    BY <1>3, <1>4, <1>5, <1>6 DEF Next, World

(* Whatever requests fail and whoever leaves when, a failure is recorded   *)
(* of a key only if its upstream failed a request that still had its       *)
(* client, or a probe.                                                     *)
THEOREM VerdictsOnly == Spec => OnlyVerdictsCool
  <1>1. RequestInv /\ [Next]_gatewayVars => [OnlyVerdict]_gatewayVars
    BY OnlyVerdictStep
  <1> QED
    BY <1>1, RequestInvariant, PTL DEF Spec, OnlyVerdictsCool, OnlyVerdict
-----------------------------------------------------------------------------
(* A request comes to its end: the two halves of RequestsEnd that need no  *)
(* fairness, for a finite number of keys.  There is always something for   *)
(* it to do, and only so much of it.                                       *)

(* What a loop, a selection and a call need to take their next step.       *)
NoDeadEnd ==
    \A r \in Requests :
        /\ pc[r] \in {"ensure", "load"} => \E k \in Keys : Foremost(k, route[r].left)
        /\ At(r, "select") =>
              (~ route[r].ids \subseteq route[r].cooling
                 <=> \E k \in Keys : Selected(k, route[r].ids \ route[r].cooling, route[r].load))
        /\ pc[r] \in HoldingPcs \cup {"get", "enter"} => key[r] \in Keys
        /\ At(r, "mark") => mark[r].pc = "idle"
        /\ At(r, "marking") => mark[r].pc \in {"ensured", "again", "read"}

LEMMA SmallestNumber ==
  ASSUME NEW S \in SUBSET Nat, S # {}
  PROVE  \E m \in S : \A n \in S : m <= n
  <1> DEFINE R == OpToRel(<, Nat)
  <1>1. IsWellFoundedOn(R, Nat)
    BY NatLessThanWellFounded
  <1>2. \A y, m \in Nat : <<y, m>> \in R <=> y < m
    BY DEF OpToRel
  <1> HIDE DEF R
  <1>3. PICK m \in S : \A y \in S : ~(<<y, m>> \in R)
    BY <1>1, WFMin
  <1>4. ASSUME NEW n \in S PROVE m <= n
    <2>1. ~(n < m)
      BY <1>2, <1>3
    <2>2. n \in Nat /\ m \in Nat
      OBVIOUS
    <2> QED
      BY <2>1, <2>2
  <1> QED
    BY <1>4

(* Of any candidates one is to be selected: among those with the least     *)
(* load the one with the smallest id.                                      *)
LEMMA OneIsSelected ==
  ASSUME NEW ids \in SUBSET Nat, ids # {}, NEW load, \A k \in ids : load[k] \in Nat
  PROVE  \E k \in ids : Selected(k, ids, load)
  <1> DEFINE Loads == {load[k] : k \in ids}
  <1>1. Loads \in SUBSET Nat /\ Loads # {}
    OBVIOUS
  <1>2. PICK n \in Loads : \A m \in Loads : n <= m
    BY <1>1, SmallestNumber
  <1> DEFINE Least == {k \in ids : load[k] = n}
  <1>3. Least \in SUBSET Nat /\ Least # {}
    BY <1>2
  <1>4. PICK k \in Least : \A l \in Least : k <= l
    BY <1>3, SmallestNumber
  <1>5. ASSUME NEW l \in ids PROVE load[k] < load[l] \/ (load[k] = load[l] /\ k <= l)
    <2>1. load[k] = n /\ n <= load[l] /\ n \in Nat /\ load[l] \in Nat
      BY <1>1, <1>2
    <2>2. CASE load[l] = n
      BY <1>4, <2>1, <2>2
    <2>3. CASE load[l] # n
      BY <2>1, <2>3
    <2> QED
      BY <2>2, <2>3
  <1> QED
    BY <1>5 DEF Selected

(* The loops of the routing have a candidate left, as there is one at all. *)
HasWay(r) ==
    /\ pc[r] \in {"ensure", "query", "clock", "load"} => route[r].ids # {}
    /\ pc[r] \in {"ensure", "load"} => route[r].left # {}

WayInv == \A r \in Requests : HasWay(r)

LEMMA OthersKeepAll ==
  ASSUME TypeOK, [Next]_gatewayVars, NEW q \in Requests,
         ~(Step(q) \/ Outside(q))
  PROVE  \/ Still(q) /\ mark'[q] = mark[q]
         \/ pc'[q] = (IF pc[q] = "new" THEN "new" ELSE "done")
  <1>1. ASSUME NEW r \in Requests, Step(r) \/ Outside(r) PROVE Still(q) /\ mark'[q] = mark[q]
    BY <1>1, OthersWait
  <1>2. ASSUME NEW k \in Keys, DeleteKey(k) PROVE Still(q) /\ mark'[q] = mark[q]
    BY <1>2 DEF DeleteKey, H!DeleteRow, Still, requestVars
  <1>3. ASSUME NEW p \in Probers, ProbeMark(p) PROVE Still(q) /\ mark'[q] = mark[q]
    <2>1. H!TypeOK
      BY DEF TypeOK
    <2>2. CASE MarkMoves(p)
      BY <2>1, <2>2, <1>3, OneMarks, RequestsAssumption DEF ProbeMark, Still, requestVars
    <2>3. CASE \E k \in Keys : H!Ensure(k)
      BY <2>1, <2>3, <1>3, NoMark DEF ProbeMark, Still, requestVars
    <2> QED
      BY <1>3, <2>2, <2>3 DEF ProbeMark, MarkMoves
  <1>4. CASE Restart
    BY <1>4 DEF Restart, At
  <1>5. CASE Tick
    BY <1>5 DEF Tick, H!Tick, Still, requestVars
  <1>6. CASE UNCHANGED gatewayVars
    BY <1>6 DEF gatewayVars, Still
  <1> QED
    BY <1>1, <1>2, <1>3, <1>4, <1>5, <1>6 DEF Next, World

LEMMA WayStep == TypeOK /\ WayInv /\ [Next]_gatewayVars => WayInv'
  <1> SUFFICES ASSUME TypeOK, WayInv, [Next]_gatewayVars, NEW r \in Requests PROVE HasWay(r)'
    BY DEF WayInv
  <1>1. HasWay(r) /\ pc \in [Requests -> Pcs] /\ route \in [Requests -> Route]
    BY DEF WayInv, TypeOK, SlotTypeOK
  <1> USE DEF HasWay, At, Goto
  <1>2. CASE EnsureCandidate(r)
    BY <1>1, <1>2 DEF EnsureCandidate, Foremost
  <1>3. CASE ReadInflight(r)
    BY <1>1, <1>3 DEF ReadInflight, Foremost
  <1>4. CASE QueryCandidates(r) \/ ReadClock(r)
    <2>1. CASE QueryCandidates(r)
      BY <1>1, <2>1 DEF QueryCandidates
    <2>2. CASE ReadClock(r)
      <3>1. /\ pc[r] = "clock" /\ pc'[r] = "load"
            /\ route' = [route EXCEPT ![r].left = route[r].ids, ![r].until = Zero,
                            ![r].cooling = {k \in route[r].ids : now < route[r].until[k]}]
        BY <1>1, <2>2 DEF ReadClock
      <3>2. route'[r].ids = route[r].ids /\ route'[r].left = route[r].ids
        BY <1>1, <3>1 DEF Route
      <3> QED
        BY <1>1, <3>1, <3>2
    <2> QED
      BY <1>4, <2>1, <2>2
  <1>5. CASE Select(r) \/ NoHealthyKeys(r) \/ RoutingFails(r) \/ Enter(r)
    BY <1>1, <1>5 DEF Select, NoHealthyKeys, RoutingFails, Enter, Reject
  <1>6. CASE GetKey(r)
    BY <1>1, <1>6 DEF GetKey, Reject
  <1>7. CASE UpstreamFails(r) \/ Log(r) \/ Answer(r) \/ Leave(r)
    BY <1>1, <1>7 DEF UpstreamFails, Log, Answer, Leave
  <1>8. CASE Mark(r) \/ MarkGoesOn(r)
    BY <1>1, <1>8 DEF Mark, MarkGoesOn
  <1>9. CASE NoKeyForModel(r) \/ StreamStarts(r) \/ UpstreamSucceeds(r) \/ ClientLeaves(r)
    BY <1>1, <1>9 DEF NoKeyForModel, StreamStarts, UpstreamSucceeds, ClientLeaves, Reject
  <1>10. ASSUME NEW s \in BOOLEAN, NEW ids \in SUBSET Keys, Arrive(r, s, ids) PROVE HasWay(r)'
    <2>1. route'[r].ids = ids /\ route'[r].left = ids /\ ids # {}
      BY <1>1, <1>10 DEF Arrive, Over
    <2> QED
      BY <2>1
  <1>11. CASE ~(Step(r) \/ Outside(r))
    BY <1>1, <1>11, OthersKeepAll DEF Still
  <1> QED
    BY <1>2, <1>3, <1>4, <1>5, <1>6, <1>7, <1>8, <1>9, <1>10, <1>11
       DEF Step, Routing, Marking, Outside

(* Whatever other requests, clients, probes, deletions and restarts do, a  *)
(* request that is on its way finds the next candidate of its loop, a key  *)
(* unless all cool down, a call of its own to open and an open one to go   *)
(* on with.                                                                *)
THEOREM RequestsGoOn == Spec => []NoDeadEnd
  <1>1. Init => WayInv
    BY DEF Init, WayInv, HasWay
  <1>2. TypeOK /\ WayInv => NoDeadEnd
    <2> SUFFICES ASSUME TypeOK, NEW r \in Requests, HasWay(r)
                 PROVE  /\ pc[r] \in {"ensure", "load"} => \E k \in Keys : Foremost(k, route[r].left)
                        /\ At(r, "select") =>
                             (~ route[r].ids \subseteq route[r].cooling
                                <=> \E k \in Keys : Selected(k, route[r].ids \ route[r].cooling,
                                                             route[r].load))
                        /\ pc[r] \in HoldingPcs \cup {"get", "enter"} => key[r] \in Keys
                        /\ At(r, "mark") => mark[r].pc = "idle"
                        /\ At(r, "marking") => mark[r].pc \in {"ensured", "again", "read"}
      BY DEF NoDeadEnd, WayInv
    <2>1. /\ route[r].ids \subseteq Keys /\ route[r].left \subseteq Keys
          /\ route[r].load \in [Keys -> Nat]
      <3>1. route[r] \in Route
        BY DEF TypeOK
      <3> QED
        BY <3>1 DEF Route
    <2>2. Keys \subseteq Nat
      BY HealthAssumption
    <2>3. ASSUME pc[r] \in {"ensure", "load"} PROVE \E k \in Keys : Foremost(k, route[r].left)
      <3>1. route[r].left \in SUBSET Nat /\ route[r].left # {}
        BY <2>1, <2>2, <2>3 DEF HasWay
      <3>2. \E k \in route[r].left : \A l \in route[r].left : k <= l
        BY <3>1, SmallestNumber
      <3> QED
        BY <2>1, <3>2 DEF Foremost
    <2>4. (~ route[r].ids \subseteq route[r].cooling)
             <=> \E k \in Keys : Selected(k, route[r].ids \ route[r].cooling, route[r].load)
      <3> DEFINE ids == route[r].ids \ route[r].cooling
      <3>1. ids \in SUBSET Nat /\ ids \subseteq Keys /\ \A k \in ids : route[r].load[k] \in Nat
        BY <2>1, <2>2
      <3>2. ASSUME ids # {} PROVE \E k \in ids : Selected(k, ids, route[r].load)
        BY <3>1, <3>2, OneIsSelected
      <3>3. ASSUME NEW k \in Keys, Selected(k, ids, route[r].load) PROVE ids # {}
        BY <3>3 DEF Selected
      <3> QED
        BY <3>1, <3>2, <3>3
    <2>5. /\ pc[r] \in HoldingPcs \cup {"get", "enter"} => key[r] \in Keys
          /\ At(r, "marking") <=> mark[r].pc # "idle"
          /\ mark[r] \in H!Call
      BY DEF TypeOK, SlotTypeOK, H!TypeOK
    <2>6. /\ At(r, "mark") => mark[r].pc = "idle"
          /\ At(r, "marking") => mark[r].pc \in {"ensured", "again", "read"}
      BY <2>5 DEF At, H!Call
    <2> QED
      BY <2>3, <2>4, <2>5, <2>6
  <1> QED
    BY <1>1, <1>2, WayStep, GatewayTyped, PTL DEF Spec

(* What r has left to do: by the statements before it, for each key that   *)
(* its loop has left, and in its Mark call.  n is the number of keys.      *)
PlaceLeft(l, n) ==
    [done |-> 0, leave |-> 1, answer |-> 2, marking |-> 3, mark |-> 7, log |-> 8,
     streaming |-> 9, upstream |-> 10, enter |-> 11, get |-> 12, select |-> 13, load |-> 13,
     clock |-> n + 14, query |-> n + 15, ensure |-> n + 15, new |-> n + n + 16][l]
CallLeft(c) == [idle |-> 0, read |-> 1, again |-> 2, ensured |-> 3][c]

Measure(l, left, c) ==
    PlaceLeft(l, Cardinality(Keys))
      + (IF l \in {"ensure", "load"} THEN Cardinality(left) ELSE 0)
      + (IF l = "marking" THEN CallLeft(c) ELSE 0)

Remaining(r) == Measure(pc[r], route[r].left, mark[r].pc)

(* Nothing gives a request back what it has done, and whatever moves it    *)
(* leaves it less to do: its own steps, its upstream, a restart.           *)
Advances(r) ==
    /\ Remaining(r)' <= Remaining(r)
    /\ Step(r) \/ pc'[r] # pc[r] => Remaining(r)' < Remaining(r)

CallPcs == {"idle", "ensured", "again", "read"}

LEMMA MeasureValues ==
  ASSUME IsFiniteSet(Keys), NEW left, left \subseteq Keys, NEW c \in CallPcs,
         NEW n, n = Cardinality(Keys), NEW m, m = Cardinality(left)
  PROVE  /\ n \in Nat /\ m \in Nat /\ m <= n
         /\ CallLeft(c) \in 0 .. 3
         /\ \A l \in Pcs \ {"ensure", "load", "marking"} : Measure(l, left, c) = PlaceLeft(l, n)
         /\ Measure("ensure", left, c) = n + 15 + m
         /\ Measure("load", left, c) = 13 + m
         /\ Measure("marking", left, c) = 3 + CallLeft(c)
  <1>1. n \in Nat /\ m \in Nat /\ m <= n
    BY FS_Subset, FS_CardinalityType
  <1>2. CallLeft(c) \in 0 .. 3
    BY DEF CallLeft, CallPcs
  <1>3. \A l \in Pcs : PlaceLeft(l, n) \in Nat
    BY <1>1 DEF Pcs, PlaceLeft
  <1>4. /\ PlaceLeft("ensure", n) = n + 15 /\ PlaceLeft("load", n) = 13
        /\ PlaceLeft("marking", n) = 3
    BY DEF PlaceLeft
  <1>5. Measure("ensure", left, c) = n + 15 + m /\ Measure("load", left, c) = 13 + m
    BY <1>1, <1>4 DEF Measure
  <1>6. Measure("marking", left, c) = 3 + CallLeft(c)
    BY <1>2, <1>4 DEF Measure
  <1>7. ASSUME NEW l \in Pcs \ {"ensure", "load", "marking"}
        PROVE  Measure(l, left, c) = PlaceLeft(l, n)
    BY <1>3 DEF Measure
  <1> QED
    BY <1>1, <1>2, <1>5, <1>6, <1>7

LEMMA MeasureBounded ==
  ASSUME IsFiniteSet(Keys), NEW l \in Pcs, NEW left, left \subseteq Keys, NEW c \in CallPcs
  PROVE  Measure(l, left, c) \in 0 .. 2 * Cardinality(Keys) + 16
  <1>1. PICK n, m : n = Cardinality(Keys) /\ m = Cardinality(left)
    OBVIOUS
  <1>2. n \in Nat /\ m \in Nat /\ m <= n /\ CallLeft(c) \in 0 .. 3
    BY <1>1, MeasureValues
  <1>3. CASE l \in {"ensure", "load", "marking"}
    BY <1>1, <1>2, <1>3, MeasureValues
  <1>4. CASE l \notin {"ensure", "load", "marking"}
    <2>1. Measure(l, left, c) = PlaceLeft(l, n)
      BY <1>1, <1>4, MeasureValues
    <2>2. PlaceLeft(l, n) \in 0 .. 2 * n + 16
      BY <1>2 DEF PlaceLeft, Pcs
    <2> QED
      BY <1>1, <2>1, <2>2
  <1> QED
    BY <1>3, <1>4

(* The moves that leave less to do whatever else they change.              *)
Onward ==
    {<<"new", "ensure">>, <<"query", "clock">>, <<"clock", "load">>, <<"select", "get">>,
     <<"get", "enter">>, <<"enter", "upstream">>, <<"upstream", "streaming">>,
     <<"upstream", "log">>, <<"streaming", "log">>, <<"log", "mark">>, <<"mark", "marking">>,
     <<"mark", "answer">>, <<"marking", "answer">>, <<"answer", "leave">>}

LEMMA OnwardFalls ==
  ASSUME IsFiniteSet(Keys), NEW l, NEW m, <<l, m>> \in Onward,
         NEW left, NEW left2, left \subseteq Keys, left2 \subseteq Keys,
         NEW c \in CallPcs, NEW d \in CallPcs
  PROVE  Measure(m, left2, d) < Measure(l, left, c)
  <1>1. PICK n, p, q : n = Cardinality(Keys) /\ p = Cardinality(left) /\ q = Cardinality(left2)
    OBVIOUS
  <1>2. /\ n \in Nat /\ p \in Nat /\ p <= n /\ q \in Nat /\ q <= n
        /\ CallLeft(c) \in 0 .. 3 /\ CallLeft(d) \in 0 .. 3
    BY <1>1, MeasureValues
  <1>3. /\ \A k \in Pcs \ {"ensure", "load", "marking"} : Measure(k, left, c) = PlaceLeft(k, n)
        /\ \A k \in Pcs \ {"ensure", "load", "marking"} : Measure(k, left2, d) = PlaceLeft(k, n)
        /\ Measure("ensure", left2, d) = n + 15 + q
        /\ Measure("load", left2, d) = 13 + q
        /\ Measure("marking", left2, d) = 3 + CallLeft(d)
        /\ Measure("marking", left, c) = 3 + CallLeft(c)
    BY <1>1, MeasureValues
  <1>4. CASE m \in {"ensure", "load", "marking"} \/ l = "marking"
    BY <1>2, <1>3, <1>4 DEF Onward, PlaceLeft, Pcs
  <1>5. CASE m \notin {"ensure", "load", "marking"} /\ l # "marking"
    <2>1. l \in Pcs \ {"ensure", "load", "marking"} /\ m \in Pcs \ {"ensure", "load", "marking"}
      BY <1>5 DEF Onward, Pcs
    <2>2. PlaceLeft(m, n) < PlaceLeft(l, n)
      BY <1>2, <1>5 DEF Onward, PlaceLeft
    <2> QED
      BY <1>3, <2>1, <2>2
  <1> QED
    BY <1>4, <1>5

LEMMA DoneFalls ==
  ASSUME IsFiniteSet(Keys), NEW l \in Pcs, l # "done",
         NEW left, NEW left2, left \subseteq Keys, left2 \subseteq Keys,
         NEW c \in CallPcs, NEW d \in CallPcs
  PROVE  Measure("done", left2, d) < Measure(l, left, c)
  <1>1. PICK n, p, q : n = Cardinality(Keys) /\ p = Cardinality(left) /\ q = Cardinality(left2)
    OBVIOUS
  <1>2. n \in Nat /\ p \in Nat /\ CallLeft(c) \in 0 .. 3
    BY <1>1, MeasureValues
  <1>3. Measure("done", left2, d) = 0
    <2>1. Measure("done", left2, d) = PlaceLeft("done", n)
      BY <1>1, MeasureValues DEF Pcs
    <2> QED
      BY <2>1 DEF PlaceLeft
  <1>4. CASE l \in {"ensure", "load", "marking"}
    BY <1>1, <1>2, <1>3, <1>4, MeasureValues
  <1>5. CASE l \notin {"ensure", "load", "marking"}
    <2>1. Measure(l, left, c) = PlaceLeft(l, n)
      BY <1>1, <1>5, MeasureValues
    <2>2. PlaceLeft(l, n) > 0
      BY <1>2, <1>5 DEF PlaceLeft, Pcs
    <2> QED
      BY <1>3, <2>1, <2>2
  <1> QED
    BY <1>4, <1>5

(* A loop that has looked at k: it goes round or on to its next statement. *)
LEMMA LoopFalls ==
  ASSUME IsFiniteSet(Keys), NEW left, left \subseteq Keys, NEW k \in left,
         NEW c \in CallPcs, NEW d \in CallPcs
  PROVE  /\ Measure("ensure", left \ {k}, d) < Measure("ensure", left, c)
         /\ Measure("load", left \ {k}, d) < Measure("load", left, c)
         /\ Measure("query", left \ {k}, d) < Measure("ensure", left, c)
         /\ Measure("select", left \ {k}, d) < Measure("load", left, c)
  <1>1. PICK n, p, q :
          n = Cardinality(Keys) /\ p = Cardinality(left) /\ q = Cardinality(left \ {k})
    OBVIOUS
  <1>2. left \ {k} \subseteq Keys /\ IsFiniteSet(left)
    BY FS_Subset
  <1>3. n \in Nat /\ p \in Nat /\ q \in Nat /\ q = p - 1
    BY <1>1, <1>2, MeasureValues, FS_RemoveElement
  <1>4. /\ Measure("ensure", left, c) = n + 15 + p /\ Measure("load", left, c) = 13 + p
        /\ Measure("ensure", left \ {k}, d) = n + 15 + q
        /\ Measure("load", left \ {k}, d) = 13 + q
        /\ Measure("query", left \ {k}, d) = PlaceLeft("query", n)
        /\ Measure("select", left \ {k}, d) = PlaceLeft("select", n)
    BY <1>1, <1>2, MeasureValues DEF Pcs
  <1>5. PlaceLeft("query", n) = n + 15 /\ PlaceLeft("select", n) = 13
    BY DEF PlaceLeft
  <1> QED
    BY <1>3, <1>4, <1>5

(* Each of a request's moves takes from what remains.                      *)
LEMMA RequestMoves ==
  ASSUME IsFiniteSet(Keys), TypeOK, TypeOK', NEW r \in Requests,
         Step(r) \/ (Outside(r) /\ ~ClientLeaves(r))
  PROVE  Remaining(r)' < Remaining(r)
  <1>1. /\ pc \in [Requests -> Pcs] /\ route \in [Requests -> Route]
        /\ route[r].left \subseteq Keys /\ route'[r].left \subseteq Keys
        /\ mark[r].pc \in CallPcs /\ mark'[r].pc \in CallPcs
    <2>1. route[r] \in Route /\ route'[r] \in Route /\ mark[r] \in H!Call /\ mark'[r] \in H!Call
      BY DEF TypeOK, H!TypeOK
    <2> QED
      BY <2>1 DEF TypeOK, SlotTypeOK, Route, H!Call, CallPcs
  <1>2. ASSUME <<pc[r], pc'[r]>> \in Onward PROVE Remaining(r)' < Remaining(r)
    BY <1>1, <1>2, OnwardFalls DEF Remaining
  <1>3. ASSUME pc[r] # "done", pc'[r] = "done" PROVE Remaining(r)' < Remaining(r)
    BY <1>1, <1>3, DoneFalls DEF Remaining
  <1> USE DEF At, Goto
  <1>4. CASE EnsureCandidate(r)
    <2>1. PICK k \in route[r].left :
             /\ route'[r].left = route[r].left \ {k}
             /\ pc[r] = "ensure" /\ pc'[r] \in {"ensure", "query"}
      BY <1>1, <1>4 DEF EnsureCandidate, Foremost
    <2> QED
      BY <1>1, <2>1, LoopFalls DEF Remaining
  <1>5. CASE ReadInflight(r)
    <2>1. PICK k \in route[r].left :
             /\ route'[r].left = route[r].left \ {k}
             /\ pc[r] = "load" /\ pc'[r] \in {"load", "select"}
      BY <1>1, <1>5 DEF ReadInflight, Foremost
    <2> QED
      BY <1>1, <2>1, LoopFalls DEF Remaining
  <1>6. CASE QueryCandidates(r) \/ ReadClock(r)
    BY <1>1, <1>2, <1>6 DEF QueryCandidates, ReadClock, Onward
  <1>7. CASE Select(r) \/ Enter(r)
    BY <1>1, <1>2, <1>7 DEF Select, Enter, Onward
  <1>8. CASE NoHealthyKeys(r) \/ RoutingFails(r) \/ NoKeyForModel(r)
    BY <1>1, <1>3, <1>8 DEF NoHealthyKeys, RoutingFails, NoKeyForModel, Reject
  <1>9. CASE GetKey(r)
    <2>1. pc[r] = "get" /\ pc'[r] \in {"enter", "done"}
      BY <1>1, <1>9 DEF GetKey, Reject
    <2> QED
      BY <1>2, <1>3, <2>1 DEF Onward
  <1>10. CASE UpstreamFails(r) \/ UpstreamSucceeds(r) \/ StreamStarts(r)
    <2>1. /\ pc[r] \in {"upstream", "streaming"} /\ pc'[r] \in {"streaming", "log"}
          /\ pc'[r] = "streaming" => pc[r] = "upstream"
      BY <1>1, <1>10 DEF UpstreamFails, UpstreamSucceeds, StreamStarts
    <2> QED
      BY <1>2, <2>1 DEF Onward
  <1>11. CASE Log(r) \/ Answer(r)
    BY <1>1, <1>2, <1>11 DEF Log, Answer, Onward
  <1>12. CASE Leave(r)
    BY <1>1, <1>3, <1>12 DEF Leave
  <1>13. CASE Mark(r)
    BY <1>1, <1>2, <1>13 DEF Mark, Onward
  <1>14. CASE MarkGoesOn(r)
    <2>1. pc[r] = "marking" /\ pc'[r] \in {"marking", "answer"}
      BY <1>1, <1>14 DEF MarkGoesOn
    <2>2. CASE pc'[r] = "answer"
      BY <1>2, <2>1, <2>2 DEF Onward
    <2>3. CASE pc'[r] = "marking"
      <3>1. mark'[r].pc # "idle"
        BY <2>3 DEF TypeOK
      <3>2. mark \in [Requests \cup Probers -> H!Call]
        BY DEF TypeOK, H!TypeOK
      <3>3. \/ mark[r].pc = "ensured" /\ mark'[r].pc = "again"
            \/ mark[r].pc = "again" /\ mark'[r].pc = "read"
        <4>1. CASE H!MarkAbort(r) \/ H!MarkReset(r) \/ H!MarkWrite(r)
          <5>1. mark' = [mark EXCEPT ![r] = H!NoCall]
            BY <4>1 DEF H!MarkAbort, H!MarkReset, H!MarkWrite
          <5> QED
            BY <3>1, <3>2, <5>1 DEF H!NoCall
        <4>2. CASE H!MarkRecheck(r)
          <5>1. mark[r].pc = "ensured" /\ mark' = [mark EXCEPT ![r].pc = "again"]
            BY <4>2 DEF H!MarkRecheck
          <5>2. mark[r] \in H!Call /\ mark'[r] = [mark[r] EXCEPT !.pc = "again"]
            BY <3>2, <5>1
          <5> QED
            BY <5>1, <5>2 DEF H!Call
        <4>3. CASE H!MarkRead(r)
          <5>1. /\ mark[r].pc = "again"
                /\ \E x \in {H!NoCall, H!HasSeen(mark[r].key, keyState[mark[r].key].failures, now)} :
                      mark' = [mark EXCEPT ![r] = x]
            BY <4>3 DEF H!MarkRead
          <5> QED
            BY <3>1, <3>2, <5>1 DEF H!NoCall, H!HasSeen
        <4> QED
          BY <1>14, <4>1, <4>2, <4>3 DEF MarkGoesOn
      <3>4. CallLeft("ensured") = 3 /\ CallLeft("again") = 2 /\ CallLeft("read") = 1
        BY DEF CallLeft
      <3>5. Remaining(r) = 3 + CallLeft(mark[r].pc) /\ Remaining(r)' = 3 + CallLeft(mark'[r].pc)
        <4>1. \A left, c : left \subseteq Keys /\ c \in CallPcs =>
                 Measure("marking", left, c) = 3 + CallLeft(c)
          BY MeasureValues
        <4> QED
          BY <1>1, <2>1, <2>3, <4>1 DEF Remaining
      <3> QED
        BY <3>3, <3>4, <3>5
    <2> QED
      BY <2>1, <2>2, <2>3
  <1>15. ASSUME NEW s \in BOOLEAN, NEW ids \in SUBSET Keys, Arrive(r, s, ids)
         PROVE  Remaining(r)' < Remaining(r)
    BY <1>1, <1>2, <1>15 DEF Arrive, Onward
  <1> QED
    BY <1>4, <1>5, <1>6, <1>7, <1>8, <1>9, <1>10, <1>11, <1>12, <1>13, <1>14, <1>15
       DEF Step, Routing, Marking, Outside

LEMMA RequestAdvances ==
  ASSUME IsFiniteSet(Keys), TypeOK, TypeOK', [Next]_gatewayVars, NEW r \in Requests
  PROVE  Advances(r)
  <1>1. /\ pc[r] \in Pcs /\ pc'[r] \in Pcs
        /\ route[r].left \subseteq Keys /\ route'[r].left \subseteq Keys
        /\ mark[r].pc \in CallPcs /\ mark'[r].pc \in CallPcs
    <2>1. route[r] \in Route /\ route'[r] \in Route /\ mark[r] \in H!Call /\ mark'[r] \in H!Call
      BY DEF TypeOK, H!TypeOK
    <2> QED
      BY <2>1 DEF TypeOK, SlotTypeOK, Route, H!Call, CallPcs
  <1>2. Remaining(r) \in Nat /\ Remaining(r)' \in Nat
    BY <1>1, MeasureBounded DEF Remaining
  <1>3. ASSUME Still(r), mark'[r].pc = mark[r].pc, ~Step(r) PROVE Advances(r)
    BY <1>2, <1>3 DEF Still, Advances, Remaining
  <1>4. CASE Step(r) \/ (Outside(r) /\ ~ClientLeaves(r))
    BY <1>2, <1>4, RequestMoves DEF Advances
  <1>5. CASE ClientLeaves(r) /\ ~Step(r)
    BY <1>3, <1>5 DEF ClientLeaves, Still, Private, healthVars
  <1>6. CASE ~(Step(r) \/ Outside(r))
    <2>1. CASE Still(r) /\ mark'[r] = mark[r]
      BY <1>3, <1>6, <2>1
    <2>2. CASE pc[r] # "done" /\ pc'[r] = "done"
      BY <1>1, <1>2, <1>6, <2>2, DoneFalls DEF Remaining, Advances
    <2>3. CASE pc'[r] = pc[r] /\ pc[r] \in {"new", "done"}
      <3>1. Remaining(r)' = Remaining(r)
        <4>1. \A left, c : left \subseteq Keys /\ c \in CallPcs =>
                 Measure(pc[r], left, c) = PlaceLeft(pc[r], Cardinality(Keys))
          BY <1>1, <2>3, MeasureValues
        <4> QED
          BY <1>1, <2>3, <4>1 DEF Remaining
      <3> QED
        BY <1>2, <1>6, <2>3, <3>1 DEF Advances
    <2> QED
      BY <1>6, <2>1, <2>2, <2>3, OthersKeepAll
  <1> QED
    BY <1>4, <1>5, <1>6

(* A request takes at most as many steps as Remaining says when it comes,  *)
(* two for each key and 16, whatever happens beside it: no step, its own   *)
(* or another's, makes it repeat what it has done.                         *)
THEOREM RequestsRunOut ==
  ASSUME IsFiniteSet(Keys)
  PROVE  /\ Spec => [](\A r \in Requests : Remaining(r) \in 0 .. 2 * Cardinality(Keys) + 16)
         /\ Spec => [][\A r \in Requests : Advances(r)]_gatewayVars
  <1>1. TypeOK => \A r \in Requests : Remaining(r) \in 0 .. 2 * Cardinality(Keys) + 16
    <2> SUFFICES ASSUME TypeOK, NEW r \in Requests
                 PROVE  Remaining(r) \in 0 .. 2 * Cardinality(Keys) + 16
      OBVIOUS
    <2>1. route[r] \in Route /\ mark[r] \in H!Call /\ pc[r] \in Pcs
      BY DEF TypeOK, SlotTypeOK, H!TypeOK
    <2>2. route[r].left \subseteq Keys /\ mark[r].pc \in CallPcs
      BY <2>1 DEF Route, H!Call, CallPcs
    <2> QED
      BY <2>1, <2>2, MeasureBounded DEF Remaining
  <1>2. TypeOK /\ TypeOK' /\ [Next]_gatewayVars =>
            [\A r \in Requests : Advances(r)]_gatewayVars
    BY RequestAdvances
  <1> QED
    BY <1>1, <1>2, TypeInit, TypeStep, GatewayTyped, PTL DEF Spec
=============================================================================
