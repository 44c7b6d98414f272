--------------------------- MODULE SelectorProofs ---------------------------
(* Select returns the least loaded candidate for lists of every length.    *)
EXTENDS Selector, Selection, TLAPS

(* The order that the loop compares by is total on candidates and carries  *)
(* over from one comparison to the next.                                   *)
LEMMA NoWorseOrder ==
  ASSUME NEW x \in Candidate, NEW y \in Candidate, NEW z \in Candidate
  PROVE  /\ NoWorse(x, y) \/ NoWorse(y, x)
         /\ NoWorse(x, y) /\ NoWorse(y, z) => NoWorse(x, z)
  BY DEF NoWorse, Candidate

LEMMA SelectorInit == Init => TypeOK /\ BestSoFar
  <1> SUFFICES ASSUME Init PROVE TypeOK /\ BestSoFar
    OBVIOUS
  <1>1. candidates \in Seq(Candidate) /\ Len(candidates) \in Nat
    BY InputsAssumption DEF Init
  <1>2. NoCandidate \in Candidate
    BY DEF NoCandidate, Candidate
  <1>3. Seen = {}
    BY DEF Init, Seen, Eligible
  <1>4. TypeOK
    <2>1. i \in 1 .. Len(candidates) + 1
      BY <1>1 DEF Init
    <2>2. best \in Candidate /\ found \in BOOLEAN
      BY <1>2, Zenon DEF Init
    <2> QED
      BY <1>1, <2>1, <2>2 DEF TypeOK
  <1> QED
    BY <1>3, <1>4 DEF Init, BestSoFar

(* Each round of the loop keeps the best of the candidates seen.           *)
LEMMA SelectorStep == TypeOK /\ BestSoFar /\ [Next]_vars => TypeOK' /\ BestSoFar'
  <1> SUFFICES ASSUME TypeOK, BestSoFar, [Next]_vars PROVE TypeOK' /\ BestSoFar'
    OBVIOUS
  <1>1. CASE UNCHANGED vars
    BY <1>1 DEF vars, TypeOK, BestSoFar, Seen, Eligible
  <1> SUFFICES ASSUME Next PROVE TypeOK' /\ BestSoFar'
    BY <1>1
  <1>2. /\ i \in 1 .. Len(candidates) /\ i' = i + 1
        /\ candidates' = candidates /\ Len(candidates) \in Nat
    BY DEF Next, PassOver, First, Improve, Decline, Visit, TypeOK
  <1>3. candidates \in Seq(Candidate) /\ c \in Candidate /\ c = candidates[i]
    BY <1>2 DEF TypeOK, c
  <1>4. i' \in 1 .. Len(candidates') + 1
    BY <1>2
  <1>5. Seen' = IF c.cooling THEN Seen ELSE Seen \cup {i}
    <2>1. Seen' = {k \in 1 .. i : ~candidates[k].cooling}
      BY <1>2 DEF Seen, Eligible
    <2>2. 1 .. i = (1 .. i - 1) \cup {i}
      BY <1>2
    <2> QED
      BY <2>1, <2>2, <1>3 DEF Seen, Eligible
  <1>6. \A k \in Seen : candidates[k] \in Candidate
    BY <1>2, <1>3 DEF Seen, Eligible
  <1>7. best \in Candidate /\ found \in BOOLEAN
    BY DEF TypeOK
  <1>8. CASE PassOver
    BY <1>2, <1>3, <1>4, <1>5, <1>8 DEF PassOver, Keep, TypeOK, BestSoFar
  <1>9. CASE First
    <2>1. Seen' = {i} /\ best' = candidates'[i] /\ found' = TRUE /\ best' \in Candidate
      BY <1>2, <1>3, <1>5, <1>9 DEF First, Take, BestSoFar
    <2>2. NoWorse(best', best')
      BY <2>1 DEF NoWorse, Candidate
    <2>3. TypeOK'
      BY <1>2, <1>3, <1>4, <2>1 DEF TypeOK
    <2>4. \A k \in Seen' : NoWorse(best', candidates'[k])
      BY <2>1, <2>2
    <2> QED
      BY <2>1, <2>3, <2>4 DEF BestSoFar
  <1>10. CASE Improve
    <2>1. /\ Seen' = Seen \cup {i} /\ best' = candidates'[i] /\ found' = TRUE
          /\ best' \in Candidate
      BY <1>2, <1>3, <1>5, <1>10 DEF Improve, Take
    <2>2. NoWorse(best', best) /\ NoWorse(best', best')
      BY <1>3, <1>7, <1>10 DEF Improve, Take, Better, NoWorse, Candidate
    <2>3. \A k \in Seen : NoWorse(best, candidates[k])
      BY <1>10 DEF Improve, Better, BestSoFar
    <2>4. \A k \in Seen' : NoWorse(best', candidates'[k])
      BY <1>2, <1>6, <1>7, <2>1, <2>2, <2>3, NoWorseOrder
    <2>5. TypeOK'
      BY <1>2, <1>3, <1>4, <2>1 DEF TypeOK
    <2> QED
      BY <2>1, <2>4, <2>5 DEF BestSoFar
  <1>11. CASE Decline
    <2>1. /\ Seen' = Seen \cup {i} /\ best' = best /\ found' = found /\ found
      BY <1>2, <1>3, <1>5, <1>11 DEF Decline, Keep
    <2>2. NoWorse(best, candidates[i])
      BY <1>3, <1>7, <1>11 DEF Decline, Better, NoWorse, Candidate
    <2>3. /\ \E k \in Seen : candidates[k] = best
          /\ \A k \in Seen : NoWorse(best, candidates[k])
      BY <2>1 DEF BestSoFar
    <2>4. TypeOK'
      BY <1>2, <1>3, <1>4, <1>7, <2>1 DEF TypeOK
    <2> QED
      BY <1>2, <2>1, <2>2, <2>3, <2>4 DEF BestSoFar
  <1> QED
    BY <1>8, <1>9, <1>10, <1>11 DEF Next

LEMMA LoopDone == TypeOK /\ BestSoFar => SelectsLeast
  <1> SUFFICES ASSUME TypeOK, BestSoFar, Returned PROVE SelectsLeast
    BY DEF SelectsLeast
  <1>1. Len(candidates) \in Nat /\ i - 1 = Len(candidates)
    BY DEF TypeOK, Returned
  <1>2. Seen = Eligible(Len(candidates))
    BY <1>1 DEF Seen
  <1> QED
    BY <1>2 DEF BestSoFar, SelectsLeast

(* However many candidates there are and in whatever order they come,      *)
(* Select returns the least loaded one that does not cool down, with ties  *)
(* broken by the id, and an error exactly if all of them cool down.        *)
THEOREM SelectCorrect == Spec => []SelectsLeast
  BY LoopDone, SelectorInit, SelectorStep, PTL DEF Spec

-----------------------------------------------------------------------------
(* The candidates are those of a request of Gateway: the keys ids, of      *)
(* which those of cooling cool down, with load[k] in flight on key k.      *)
AreCandidates(ids, cooling, load) ==
    /\ ids = {candidates[k].id : k \in 1 .. Len(candidates)}
    /\ \A k \in 1 .. Len(candidates) :
          /\ candidates[k].cooling <=> candidates[k].id \in cooling
          /\ candidates[k].inflight = load[candidates[k].id]

(* The outcome that Gateway takes the selection to have: the key, and no   *)
(* other, that its action Select may take, or else that of NoHealthyKeys.  *)
ReturnsSelected(ids, cooling, load) ==
    Returned =>
        /\ found => \A k \in ids : Selected(k, ids \ cooling, load) <=> k = best.id
        /\ ~found <=> ids \subseteq cooling

LEMMA LeastIsSelected ==
  ASSUME TypeOK, SelectsLeast, NEW ids, NEW cooling, NEW load,
         AreCandidates(ids, cooling, load)
  PROVE  ReturnsSelected(ids, cooling, load)
  <1> SUFFICES ASSUME Returned
               PROVE  /\ found => \A k \in ids :
                                     Selected(k, ids \ cooling, load) <=> k = best.id
                      /\ ~found <=> ids \subseteq cooling
    BY DEF ReturnsSelected
  <1> DEFINE D == 1 .. Len(candidates)
             E == Eligible(Len(candidates))
  <1>1. \A n \in D : candidates[n] \in Candidate
    BY DEF TypeOK
  <1>2. /\ \A n \in E : /\ n \in D /\ candidates[n].id \in ids \ cooling
                        /\ candidates[n].inflight = load[candidates[n].id]
        /\ \A k \in ids \ cooling : \E n \in E : candidates[n].id = k
    BY DEF AreCandidates, Eligible
  <1>3. found <=> E # {}
    BY DEF SelectsLeast
  <1>4. ~found <=> ids \subseteq cooling
    BY <1>2, <1>3
  <1>5. ASSUME found, NEW k \in ids PROVE Selected(k, ids \ cooling, load) <=> k = best.id
    <2>1. PICK n \in E : candidates[n] = best
      BY <1>5 DEF SelectsLeast
    <2>2. \A m \in E : NoWorse(best, candidates[m])
      BY <1>5 DEF SelectsLeast
    <2>3. /\ best \in Candidate /\ best.id \in ids \ cooling
          /\ best.inflight = load[best.id]
      BY <1>1, <1>2, <2>1
    <2>4. ASSUME NEW l \in ids \ cooling
          PROVE  /\ l \in Nat /\ load[l] \in Nat
                 /\ load[best.id] < load[l] \/ (load[best.id] = load[l] /\ best.id <= l)
      <3>1. PICK m \in E : candidates[m].id = l
        BY <1>2
      <3>2. /\ NoWorse(best, candidates[m]) /\ candidates[m] \in Candidate
            /\ candidates[m].inflight = load[l]
        BY <1>1, <1>2, <2>2, <3>1
      <3> QED
        BY <2>3, <3>1, <3>2 DEF NoWorse, Candidate
    <2>5. Selected(best.id, ids \ cooling, load)
      BY <2>3, <2>4 DEF Selected
    <2>6. ASSUME Selected(k, ids \ cooling, load) PROVE k = best.id
      <3>1. k \in ids \ cooling
        BY <2>6 DEF Selected
      <3>2. load[k] < load[best.id] \/ (load[k] = load[best.id] /\ k <= best.id)
        BY <2>3, <2>6 DEF Selected
      <3> QED
        BY <2>3, <2>4, <3>1, <3>2
    <2> QED
      BY <2>5, <2>6
  <1> QED
    BY <1>4, <1>5

(* What Gateway takes for one step, the loop does for every list: if the   *)
(* candidates are the keys ids of a request, of which those of cooling     *)
(* cool down, it returns the one key that Gateway's Select may choose, and *)
(* fails exactly when NoHealthyKeys may happen.                            *)
THEOREM SelectServesGateway ==
  ASSUME NEW CONSTANT ids, NEW CONSTANT cooling, NEW CONSTANT load
  PROVE  Spec => [](AreCandidates(ids, cooling, load) => ReturnsSelected(ids, cooling, load))
  <1>1. TypeOK /\ BestSoFar =>
            (AreCandidates(ids, cooling, load) => ReturnsSelected(ids, cooling, load))
    BY LoopDone, LeastIsSelected
  <1> QED
    BY <1>1, SelectorInit, SelectorStep, PTL DEF Spec
=============================================================================
