-------------------------- MODULE DownstreamProofs --------------------------
(* What Downstream guarantees for any ids, tokens, requests and reports.   *)
EXTENDS Downstream, FiniteSetTheorems, TLAPS

-----------------------------------------------------------------------------
(* Normalize books natural numbers that add up, whatever is reported.      *)
LEMMA NormalizeBooks ==
  ASSUME NEW u \in Report
  PROVE  Normalize(u) \in Booked /\ AddsUp(Normalize(u))
  <1> DEFINE p == Clamp(u.prompt)
             c == Clamp(u.completion)
             t == IF Clamp(u.total) = 0 THEN p + c ELSE Clamp(u.total)
  <1>1. p \in Nat /\ c \in Nat /\ t \in Nat
    BY DEF Clamp, Report
  <1>2. t > 0 \/ p + c = 0
    BY <1>1
  <1> HIDE DEF p, c, t
  <1> DEFINE completion == IF p + c = 0 THEN t
                           ELSE IF c = 0 /\ p < t THEN t - p ELSE c
             prompt     == IF p = 0 /\ 0 < completion /\ completion < t
                           THEN t - completion ELSE p
  <1>3. completion \in Nat
    BY <1>1
  <1>4. prompt \in Nat
    BY <1>1, <1>3
  <1>5. prompt + completion = 0 => t = 0
    BY <1>1, <1>2
  <1>6. Normalize(u) = [prompt |-> prompt, completion |-> completion,
                        total |-> IF prompt + completion > 0 THEN prompt + completion ELSE t]
    BY DEF Normalize, p, c, t
  <1> HIDE DEF prompt, completion
  <1> QED
    BY <1>1, <1>3, <1>4, <1>5, <1>6 DEF Booked, AddsUp

-----------------------------------------------------------------------------
LEMMA CountsType ==
  ASSUME NEW n \in Counts, NEW b \in Booked
  PROVE  /\ Plus(n, b) \in Counts
         /\ AddsUp(n) /\ AddsUp(b) => AddsUp(Plus(n, b))
  BY DEF Counts, Booked, Plus, AddsUp

(* What an update of a row makes of it.                                    *)
LEMMA RowUpdate ==
  ASSUME NEW x \in Key
  PROVE  /\ \A e \in BOOLEAN : LET y == [x EXCEPT !.enabled = e] IN
              y \in Key /\ y.exists = x.exists /\ y.token = x.token
         /\ \A t \in Tokens : LET y == [x EXCEPT !.token = t, !.sealed = t] IN
              y \in Key /\ y.token = t
  BY DEF Key

LEMMA TypeInit == Init => TypeOK
  <1> SUFFICES ASSUME Init PROVE TypeOK
    OBVIOUS
  <1> USE DownstreamAssumption DEF Init, Ids, NoKey
  <1>1. keys \in [Ids -> Key] /\ owner \in [Tokens -> Ids \cup {NoKey}]
    <2>1. AbsentKey \in Key /\ \A t \in Tokens : OldKey(t) \in Key
      BY DEF AbsentKey, OldKey, Key
    <2>2. \/ /\ keys = [k \in Ids |-> AbsentKey]
             /\ owner = [t \in Tokens |-> NoKey]
          \/ \E old \in Tokens :
             /\ keys = [k \in Ids |-> IF k = 1 THEN OldKey(old) ELSE AbsentKey]
             /\ owner = [t \in Tokens |-> IF t = old THEN 1 ELSE NoKey]
             /\ 1 \in Ids
      OBVIOUS
    <2> QED
      BY <2>1, <2>2
  <1>2. lastId \in 0 .. MaxId
    <2>1. lastId = 0 \/ (lastId = 1 /\ 1 \in 1 .. MaxId)
      OBVIOUS
    <2> QED
      BY <2>1
  <1>3. usage \in [Ids -> Counts] /\ job \in [Admins -> Job]
    BY DEF NoCounts, Counts, NoJob, Job, AbsentKey, Key
  <1>4. logs \in [Requests -> Log] /\ reported \in [Requests -> Report]
    BY DEF NoLog, Log, Nothing, Booked, Report
  <1>5. \A k \in Ids : Exists(k) => keys[k].token \in Tokens
    BY DEF AbsentKey, NewKey, OldKey, Exists
  <1> QED
    BY <1>1, <1>2, <1>3, <1>4, <1>5 DEF TypeOK, NoJob

(* Each action that touches a row, a handler or a counter has a step.      *)
LEMMA TypeStep == TypeOK /\ [Next]_downstreamVars => TypeOK'
  <1> SUFFICES ASSUME TypeOK, [Next]_downstreamVars PROVE TypeOK'
    OBVIOUS
  <1> USE DownstreamAssumption
      DEF TypeOK, adminVars, requestVars, At, Finish, Start, Exists, Ids, NoKey
  <1>1. ASSUME NEW e \in BOOLEAN, NEW t \in Tokens, Create(e, t) PROVE TypeOK'
    <2>1. lastId + 1 \in Ids /\ lastId + 1 \in 0 .. MaxId
      BY <1>1 DEF Create
    <2>2. NewKey(e, t) \in Key /\ NewKey(e, t).token = t /\ NoCounts \in Counts
      BY DEF NewKey, Key, NoCounts, Counts
    <2>3. /\ keys' = [keys EXCEPT ![lastId + 1] = NewKey(e, t)]
          /\ owner' = [owner EXCEPT ![t] = lastId + 1]
          /\ usage' = [usage EXCEPT ![lastId + 1] = NoCounts]
          /\ lastId' = lastId + 1
          /\ UNCHANGED <<job, dead, requestVars>>
      BY <1>1 DEF Create, FreshId
    <2>4. /\ keys' \in [Ids -> Key]
          /\ \A k \in Ids : Exists(k)' => keys'[k].token \in Tokens
      BY <2>1, <2>2, <2>3
    <2> QED
      BY <2>1, <2>2, <2>3, <2>4
  <1>2. ASSUME NEW k \in Ids, Delete(k) PROVE TypeOK'
    <2>1. AbsentKey \in Key /\ NoCounts \in Counts
      BY DEF AbsentKey, Key, NoCounts, Counts
    <2>2. dead' \subseteq Tokens
      BY <1>2 DEF Delete
    <2>3. /\ keys' \in [Ids -> Key]
          /\ \A l \in Ids : Exists(l)' => keys'[l].token \in Tokens
      <3>1. keys' = [keys EXCEPT ![k] = AbsentKey] /\ ~AbsentKey.exists
        BY <1>2 DEF Delete, AbsentKey
      <3> QED
        BY <2>1, <3>1
    <2> QED
      BY <1>2, <2>1, <2>2, <2>3 DEF Delete
  <1>3. ASSUME NEW a \in Admins, Administer(a) PROVE TypeOK'
    <2>1. CASE \E k \in Ids, e \in BOOLEAN : UpdateRead(a, k, e)
      <3>1. PICK k \in Ids, e \in BOOLEAN : UpdateRead(a, k, e)
        BY <2>1
      <3>2. job' = [job EXCEPT ![a] = [pc |-> "update", key |-> k,
                                       row |-> [keys[k] EXCEPT !.enabled = e]]]
        BY <3>1 DEF UpdateRead
      <3>3. [pc |-> "update", key |-> k, row |-> [keys[k] EXCEPT !.enabled = e]] \in Job
        <4>1. keys[k] \in Key
          OBVIOUS
        <4>2. [keys[k] EXCEPT !.enabled = e] \in Key
          BY <4>1, RowUpdate
        <4> QED
          BY <4>2 DEF Job
      <3>4. /\ job' \in [Admins -> Job]
            /\ \A b \in Admins : job'[b].pc # "idle" => job'[b].key \in Ids
        BY <3>2, <3>3
      <3> QED
        BY <3>1, <3>4 DEF UpdateRead
    <2>2. CASE UpdateWrite(a)
      <3>1. job[a] \in Job /\ NoJob \in Job
        BY DEF NoJob, Job, AbsentKey, Key
      <3> DEFINE k == job[a].key
                 row == [keys[k] EXCEPT !.enabled = job[a].row.enabled]
      <3>2. k \in Ids
        BY <2>2 DEF UpdateWrite
      <3>3. row \in Key /\ row.exists = keys[k].exists /\ row.token = keys[k].token
        <4>1. keys[k] \in Key /\ job[a].row.enabled \in BOOLEAN
          BY <3>1, <3>2 DEF Job, Key
        <4> QED
          BY <4>1, RowUpdate
      <3>4. keys' = [keys EXCEPT ![k] = row] \/ keys' = keys
        BY <2>2, <3>2 DEF UpdateWrite
      <3> HIDE DEF row, k
      <3>5. /\ keys' \in [Ids -> Key]
            /\ \A l \in Ids : Exists(l)' => keys'[l].token \in Tokens
        BY <3>2, <3>3, <3>4
      <3>6. /\ job' \in [Admins -> Job]
            /\ \A b \in Admins : job'[b].pc # "idle" => job'[b].key \in Ids
        BY <2>2, <3>1 DEF UpdateWrite, NoJob
      <3> QED
        BY <2>2, <3>5, <3>6 DEF UpdateWrite
    <2>3. CASE \E k \in Ids : RegenerateRead(a, k)
      <3>1. PICK k \in Ids : RegenerateRead(a, k)
        BY <2>3
      <3>2. [pc |-> "replace", key |-> k, row |-> AbsentKey] \in Job
        BY DEF Job, AbsentKey, Key
      <3> QED
        BY <3>1, <3>2 DEF RegenerateRead
    <2>4. CASE \E t \in Tokens : RegenerateWrite(a, t)
      <3>1. PICK t \in Tokens : RegenerateWrite(a, t)
        BY <2>4
      <3>2. job[a].key \in Ids /\ NoJob \in Job
        BY <3>1 DEF RegenerateWrite, NoJob, Job, AbsentKey, Key
      <3> DEFINE k == job[a].key
                 row == [keys[k] EXCEPT !.token = t, !.sealed = t]
      <3>3. row \in Key /\ row.token = t
        <4>1. keys[k] \in Key
          BY <3>2
        <4> QED
          BY <4>1, RowUpdate
      <3>4. keys' = [keys EXCEPT ![k] = row] /\ dead' = dead \cup {keys[k].token}
        BY <3>1, <3>2 DEF RegenerateWrite
      <3>5. dead' \subseteq Tokens
        BY <3>1, <3>2, <3>4 DEF RegenerateWrite
      <3> HIDE DEF row
      <3>6. /\ keys' \in [Ids -> Key]
            /\ \A l \in Ids : Exists(l)' => keys'[l].token \in Tokens
        BY <3>2, <3>3, <3>4
      <3>7. /\ job' \in [Admins -> Job]
            /\ \A b \in Admins : job'[b].pc # "idle" => job'[b].key \in Ids
        BY <3>1, <3>2 DEF RegenerateWrite, NoJob
      <3> QED
        BY <3>1, <3>2, <3>5, <3>6, <3>7 DEF RegenerateWrite
    <2>5. CASE Abort(a)
      <3>1. NoJob \in Job
        BY DEF NoJob, Job, AbsentKey, Key
      <3> QED
        BY <2>5, <3>1 DEF Abort, NoJob
    <2> QED
      BY <1>3, <2>1, <2>2, <2>3, <2>4, <2>5 DEF Administer
  <1>4. ASSUME NEW r \in Requests, NEW t \in Tokens \cup {EnvToken}, Admit(r, t)
        PROVE TypeOK'
    <2>1. as' \in [Requests -> Ids \cup {NoKey}]
      BY <1>4 DEF Admit, Opens
    <2> QED
      BY <1>4, <2>1 DEF Admit
  <1>5. ASSUME NEW r \in Requests, NEW u \in Reports, Insert(r, u) PROVE TypeOK'
    <2>1. u \in Report /\ Normalize(u) \in Booked
      BY NormalizeBooks
    <2>2. [exists |-> TRUE, key |-> as[r], booked |-> Normalize(u)] \in Log
      BY <2>1 DEF Log
    <2>3. usage' \in [Ids -> Counts]
      BY <1>5, <2>1, CountsType DEF Insert
    <2> QED
      BY <1>5, <2>1, <2>2, <2>3 DEF Insert
  <1>6. ASSUME NEW r \in Requests, Serve(r) PROVE TypeOK'
    <2>1. CASE \E t \in Tokens : Unauthorized(r, t)
      BY <2>1 DEF Unauthorized
    <2>2. CASE EndUnlogged(r)
      BY <2>2 DEF EndUnlogged
    <2> QED
      BY <1>4, <1>5, <1>6, <2>1, <2>2 DEF Serve
  <1>7. ASSUME NEW rows \in SUBSET Requests, DeleteLogs(rows) PROVE TypeOK'
    <2>1. NoLog \in Log
      BY DEF NoLog, Log, Nothing, Booked
    <2> QED
      BY <1>7, <2>1 DEF DeleteLogs
  <1>8. CASE Restart
    <2>1. NoJob \in Job
      BY DEF NoJob, Job, AbsentKey, Key
    <2> QED
      BY <1>8, <2>1 DEF Restart, NoJob
  <1>9. CASE UNCHANGED downstreamVars
    BY <1>9 DEF downstreamVars
  <1> QED
    BY <1>1, <1>2, <1>3, <1>6, <1>7, <1>8, <1>9 DEF Next

(* Rows, handlers, counters and log rows keep their types: in particular,  *)
(* no count that an upstream reports makes a counter negative.             *)
THEOREM TypeCorrect == Spec => []TypeOK
  BY TypeInit, TypeStep, PTL DEF Spec

-----------------------------------------------------------------------------
(* A key's token was generated for that key, so no two keys share one, and *)
(* a dead token was generated some day, so it is not generated again.      *)
TokensOwned ==
  /\ \A k \in Ids : Exists(k) => owner[keys[k].token] = k
  /\ \A t \in dead : owner[t] # NoKey

TokenInv == TypeOK /\ TokensOwned /\ ReplacedStaysDead /\ SealedCurrent

LEMMA TokenInit == Init => TokenInv
  <1> SUFFICES ASSUME Init PROVE TokensOwned /\ ReplacedStaysDead /\ SealedCurrent
    BY TypeInit DEF TokenInv
  <1>1. dead = {}
    BY DEF Init
  <1>2. \A k \in Ids : Exists(k) => /\ owner[keys[k].token] = k
                                    /\ keys[k].sealed = NoToken
    <2>1. CASE keys = [k \in Ids |-> AbsentKey]
      BY <2>1 DEF Exists, AbsentKey
    <2>2. CASE \E old \in Tokens :
                 /\ keys = [k \in Ids |-> IF k = 1 THEN OldKey(old) ELSE AbsentKey]
                 /\ owner = [t \in Tokens |-> IF t = old THEN 1 ELSE NoKey]
      <3>1. PICK old \in Tokens :
                 /\ keys = [k \in Ids |-> IF k = 1 THEN OldKey(old) ELSE AbsentKey]
                 /\ owner = [t \in Tokens |-> IF t = old THEN 1 ELSE NoKey]
        BY <2>2
      <3>2. OldKey(old).token = old /\ OldKey(old).sealed = NoToken /\ ~AbsentKey.exists
        BY DEF OldKey, AbsentKey
      <3>3. ASSUME NEW k \in Ids, Exists(k) PROVE k = 1 /\ keys[k] = OldKey(old)
        BY <3>1, <3>2, <3>3 DEF Exists
      <3> QED
        BY <3>1, <3>2, <3>3
    <2> QED
      BY <2>1, <2>2 DEF Init
  <1> QED
    BY <1>1, <1>2 DEF TokensOwned, ReplacedStaysDead, SealedCurrent

LEMMA TokenStep == TokenInv /\ [Next]_downstreamVars => TokenInv'
  <1> SUFFICES ASSUME TokenInv, [Next]_downstreamVars
               PROVE  TokensOwned' /\ ReplacedStaysDead' /\ SealedCurrent'
    BY TypeStep DEF TokenInv
  <1> DEFINE Inv == TokensOwned /\ ReplacedStaysDead /\ SealedCurrent
  <1>0. /\ keys \in [Ids -> Key] /\ owner \in [Tokens -> Ids \cup {NoKey}]
        /\ dead \subseteq Tokens /\ NoKey \notin Ids /\ lastId \in 0 .. MaxId
        /\ \A k \in Ids : Exists(k) => keys[k].token \in Tokens
        /\ \A a \in Admins : job[a].pc # "idle" => job[a].key \in Ids
    BY DownstreamAssumption DEF TokenInv, TypeOK, Ids, NoKey
  <1> USE DEF TokenInv, TokensOwned, ReplacedStaysDead, SealedCurrent, Exists
  <1>1. ASSUME NEW e \in BOOLEAN, NEW t \in Tokens, Create(e, t) PROVE Inv'
    <2> DEFINE k == lastId + 1
    <2>1. k \in Ids
      BY <1>0, <1>1, DownstreamAssumption DEF Create, Ids
    <2>2. /\ keys' = [keys EXCEPT ![k] = NewKey(e, t)]
          /\ owner' = [owner EXCEPT ![t] = k]
          /\ owner[t] = NoKey /\ dead' = dead
      BY <1>1 DEF Create, FreshId, Fresh
    <2>3. NewKey(e, t).token = t /\ NewKey(e, t).sealed = t
      BY DEF NewKey
    <2> HIDE DEF k
    <2> QED
      BY <1>0, <2>1, <2>2, <2>3
  <1>2. ASSUME NEW k \in Ids, Delete(k) PROVE Inv'
    <2>1. ~AbsentKey.exists
      BY DEF AbsentKey
    <2> QED
      BY <1>0, <1>2, <2>1 DEF Delete
  <1>3. ASSUME NEW a \in Admins, UpdateWrite(a) PROVE Inv'
    <2>1. job[a].key \in Ids
      BY <1>0, <1>3 DEF UpdateWrite, At
    <2>2. \A k \in Ids : /\ keys'[k].exists = keys[k].exists
                         /\ keys'[k].token = keys[k].token
                         /\ keys'[k].sealed = keys[k].sealed
      BY <1>0, <1>3, <2>1 DEF UpdateWrite, Key
    <2>3. owner' = owner /\ dead' = dead
      BY <1>3 DEF UpdateWrite
    <2> QED
      BY <1>0, <2>2, <2>3
  <1>4. ASSUME NEW a \in Admins, NEW t \in Tokens, RegenerateWrite(a, t) PROVE Inv'
    <2> DEFINE k == job[a].key
               row == [keys[k] EXCEPT !.token = t, !.sealed = t]
    <2>1. k \in Ids /\ Exists(k)
      BY <1>0, <1>4 DEF RegenerateWrite, At
    <2>2. row.token = t /\ row.sealed = t
      BY <1>0, <2>1 DEF Key
    <2>3. /\ keys' = [keys EXCEPT ![k] = row]
          /\ owner' = [owner EXCEPT ![t] = k]
          /\ owner[t] = NoKey /\ dead' = dead \cup {keys[k].token}
      BY <1>0, <1>4 DEF RegenerateWrite, Fresh
    <2> HIDE DEF k, row
    <2> QED
      BY <1>0, <2>1, <2>2, <2>3
  <1>5. ASSUME UNCHANGED <<keys, owner, dead>> PROVE Inv'
    BY <1>5
  <1>6. ASSUME NEW a \in Admins, Administer(a) PROVE Inv'
    BY <1>3, <1>4, <1>5, <1>6 DEF Administer, UpdateRead, RegenerateRead, Abort
  <1>7. ASSUME NEW r \in Requests, Serve(r) PROVE Inv'
    BY <1>5, <1>7 DEF Serve, Admit, Unauthorized, Insert, EndUnlogged, adminVars
  <1>8. ASSUME NEW rows \in SUBSET Requests, DeleteLogs(rows) PROVE Inv'
    BY <1>5, <1>8 DEF DeleteLogs, adminVars
  <1>9. CASE Restart
    BY <1>5, <1>9 DEF Restart
  <1>10. CASE UNCHANGED downstreamVars
    BY <1>5, <1>10 DEF downstreamVars
  <1> QED
    BY <1>1, <1>2, <1>6, <1>7, <1>8, <1>9, <1>10 DEF Next

(* A token that was replaced opens no key ever again.                      *)
THEOREM DeadStaysDead == Spec => []ReplacedStaysDead
  <1>1. TokenInv => ReplacedStaysDead
    BY DEF TokenInv
  <1> QED
    BY <1>1, TokenInit, TokenStep, PTL DEF Spec

(* Reveal tells the token that opens the key.                              *)
THEOREM RevealTells == Spec => []SealedCurrent
  <1>1. TokenInv => SealedCurrent
    BY DEF TokenInv
  <1> QED
    BY <1>1, TokenInit, TokenStep, PTL DEF Spec

(* FindByToken looks for one row, and there is at most one: whoever creates *)
(* and regenerates meanwhile, no two keys ever answer to one token.        *)
THEOREM TokensUnique ==
  Spec => [](\A k, l \in Ids : Exists(k) /\ Exists(l) /\ keys[k].token = keys[l].token => k = l)
  <1>1. TokenInv =>
          \A k, l \in Ids : Exists(k) /\ Exists(l) /\ keys[k].token = keys[l].token => k = l
    BY DEF TokenInv, TokensOwned
  <1> QED
    BY <1>1, TokenInit, TokenStep, PTL DEF Spec

(* Who comes with a token of the database is served as the key the token   *)
(* was once generated for, and only while it has not been replaced.        *)
AdmitsOwner ==
  \A r \in Requests, t \in Tokens :
      Admit(r, t) => as'[r] = owner[t] /\ t \notin dead /\ Opens(t) = {owner[t]}

THEOREM OwnersServed == Spec => [][AdmitsOwner]_downstreamVars
  <1>1. TokenInv /\ [Next]_downstreamVars => [AdmitsOwner]_downstreamVars
    <2> SUFFICES ASSUME TokenInv, NEW r \in Requests, NEW t \in Tokens, Admit(r, t)
                 PROVE  as'[r] = owner[t] /\ t \notin dead /\ Opens(t) = {owner[t]}
      BY DEF AdmitsOwner
    <2>1. t # EnvToken
      BY DownstreamAssumption
    <2>2. PICK k \in Opens(t) : as' = [as EXCEPT ![r] = k]
      BY <2>1 DEF Admit
    <2>3. as \in [Requests -> Ids \cup {NoKey}]
      BY DEF TokenInv, TypeOK
    <2>4. \A j \in Opens(t) : j = owner[t]
      BY DEF Opens, TokenInv, TokensOwned
    <2>5. t \notin dead
      BY <2>2 DEF Opens, TokenInv, ReplacedStaysDead
    <2> QED
      BY <2>2, <2>3, <2>4, <2>5
  <1> QED
    BY <1>1, TokenInit, TokenStep, PTL DEF Spec

-----------------------------------------------------------------------------
LEMMA SumsInit == Init => TotalsAgree
  BY DEF Init, TotalsAgree, AddsUp, NoCounts, NoLog, Nothing

LEMMA SumsStep == TypeOK /\ TotalsAgree /\ [Next]_downstreamVars => TotalsAgree'
  <1> SUFFICES ASSUME TypeOK, TotalsAgree, [Next]_downstreamVars PROVE TotalsAgree'
    OBVIOUS
  <1>0. AddsUp(NoCounts) /\ AddsUp(Nothing)
    BY DEF AddsUp, NoCounts, Nothing
  <1>1. usage \in [Ids -> Counts] /\ logs \in [Requests -> Log]
    BY DEF TypeOK
  <1> USE <1>1 DEF TotalsAgree
  <1>2. ASSUME UNCHANGED <<usage, logs>> PROVE TotalsAgree'
    BY <1>2
  <1>3. ASSUME NEW k \in Ids, usage' = [usage EXCEPT ![k] = NoCounts], logs' = logs
        PROVE  TotalsAgree'
    BY <1>0, <1>3
  <1>4. ASSUME NEW r \in Requests, NEW u \in Reports, Insert(r, u) PROVE TotalsAgree'
    <2>1. Normalize(u) \in Booked /\ AddsUp(Normalize(u))
      BY NormalizeBooks, DownstreamAssumption
    <2>2. \A q \in Requests : AddsUp(logs'[q].booked)
      BY <1>4, <2>1 DEF Insert
    <2>3. \A k \in Ids : AddsUp(usage'[k])
      <3>1. \A k \in Ids : AddsUp(Plus(usage[k], Normalize(u)))
        BY <2>1, CountsType
      <3>2. usage' = usage \/ usage' = [usage EXCEPT ![as[r]] = Plus(@, Normalize(u))]
        BY <1>4 DEF Insert
      <3> QED
        BY <3>1, <3>2
    <2> QED
      BY <2>2, <2>3
  <1>5. ASSUME NEW rows \in SUBSET Requests, DeleteLogs(rows) PROVE TotalsAgree'
    <2>1. NoLog.booked = Nothing
      BY DEF NoLog
    <2>2. \A q \in Requests : AddsUp(logs'[q].booked)
      BY <1>0, <1>5, <2>1 DEF DeleteLogs
    <2> QED
      BY <1>5, <2>2 DEF DeleteLogs
  <1>6. ASSUME NEW e \in BOOLEAN, NEW t \in Tokens, Create(e, t) PROVE TotalsAgree'
    <2>1. lastId + 1 \in Ids
      BY <1>6, DownstreamAssumption DEF Create, TypeOK, Ids
    <2> QED
      BY <1>3, <1>6, <2>1 DEF Create, FreshId, requestVars
  <1>7. ASSUME NEW k \in Ids, Delete(k) PROVE TotalsAgree'
    BY <1>3, <1>7 DEF Delete, requestVars
  <1>8. ASSUME NEW a \in Admins, Administer(a) PROVE TotalsAgree'
    BY <1>2, <1>8 DEF Administer, UpdateRead, UpdateWrite, RegenerateRead,
                      RegenerateWrite, Abort, requestVars
  <1>9. ASSUME NEW r \in Requests, Serve(r) PROVE TotalsAgree'
    BY <1>2, <1>4, <1>9 DEF Serve, Admit, Unauthorized, EndUnlogged
  <1>10. CASE Restart
    BY <1>2, <1>10 DEF Restart
  <1>11. CASE UNCHANGED downstreamVars
    BY <1>2, <1>11 DEF downstreamVars
  <1> QED
    BY <1>5, <1>6, <1>7, <1>8, <1>9, <1>10, <1>11 DEF Next

(* Whatever upstreams report, total = prompt + completion in every log row *)
(* and in every counter of a key.                                          *)
THEOREM TotalsAddUp == Spec => []TotalsAgree
  <1>1. TypeOK /\ TypeOK' /\ TotalsAgree /\ [Next]_downstreamVars => TotalsAgree'
    BY SumsStep
  <1> QED
    BY <1>1, SumsInit, TypeCorrect, PTL DEF Spec

-----------------------------------------------------------------------------
(* Normalize keeps what is reported, case by case of what is missing.      *)
LEMMA NormalizeKeeps ==
  ASSUME NEW u \in Report
  PROVE  Keeps(Normalize(u), u)
  <1> DEFINE p == Clamp(u.prompt)
             c == Clamp(u.completion)
             t == IF Clamp(u.total) = 0 THEN p + c ELSE Clamp(u.total)
  <1>1. /\ p \in Nat /\ c \in Nat /\ t \in Nat
        /\ u.prompt > 0 => p = u.prompt
        /\ u.prompt <= 0 => p = 0
        /\ u.completion > 0 => c = u.completion
        /\ u.completion <= 0 => c = 0
        /\ u.total > 0 => t = u.total
        /\ u.prompt \in Int /\ u.completion \in Int /\ u.total \in Int
    BY DEF Clamp, Report
  <1> HIDE DEF p, c, t
  <1> DEFINE completion == IF p + c = 0 THEN t
                           ELSE IF c = 0 /\ p < t THEN t - p ELSE c
             prompt     == IF p = 0 /\ 0 < completion /\ completion < t
                           THEN t - completion ELSE p
             total      == IF prompt + completion > 0 THEN prompt + completion ELSE t
  <1>2. Normalize(u) = [prompt |-> prompt, completion |-> completion, total |-> total]
    BY DEF Normalize, p, c, t
  <1>3. u.prompt > 0 => prompt = u.prompt
    BY <1>1
  <1>4. u.completion > 0 => completion = u.completion
    BY <1>1
  <1>5. ASSUME u.total > 0, u.prompt <= 0 \/ u.completion <= 0,
               u.prompt <= u.total, u.completion <= u.total
        PROVE  total = u.total
    <2>1. t = u.total /\ p <= t /\ c <= t /\ (p = 0 \/ c = 0)
      BY <1>1, <1>5
    <2>2. prompt + completion = t
      BY <1>1, <2>1
    <2> HIDE DEF prompt, completion
    <2> QED
      BY <1>1, <2>1, <2>2
  <1> HIDE DEF prompt, completion, total
  <1> QED
    BY <1>2, <1>3, <1>4, <1>5 DEF Keeps

LEMMA KeepsInit == Init => LogsKeepReports
  BY DEF Init, LogsKeepReports, NoLog

LEMMA KeepsStep == TypeOK /\ LogsKeepReports /\ [Next]_downstreamVars => LogsKeepReports'
  <1> SUFFICES ASSUME TypeOK, LogsKeepReports, [Next]_downstreamVars PROVE LogsKeepReports'
    OBVIOUS
  <1>0. logs \in [Requests -> Log] /\ reported \in [Requests -> Report]
    BY DEF TypeOK
  <1> USE <1>0 DEF LogsKeepReports
  <1>1. ASSUME UNCHANGED <<logs, reported>> PROVE LogsKeepReports'
    BY <1>1
  <1>2. ASSUME NEW r \in Requests, NEW u \in Reports, Insert(r, u) PROVE LogsKeepReports'
    <2>1. Keeps(Normalize(u), u)
      BY NormalizeKeeps, DownstreamAssumption
    <2> QED
      BY <1>2, <2>1 DEF Insert
  <1>3. ASSUME NEW rows \in SUBSET Requests, DeleteLogs(rows) PROVE LogsKeepReports'
    <2>1. ~NoLog.exists
      BY DEF NoLog
    <2> QED
      BY <1>3, <2>1 DEF DeleteLogs
  <1>4. ASSUME NEW a \in Admins, Administer(a) PROVE LogsKeepReports'
    BY <1>1, <1>4 DEF Administer, UpdateRead, UpdateWrite, RegenerateRead,
                      RegenerateWrite, Abort, requestVars
  <1>5. ASSUME NEW r \in Requests, Serve(r) PROVE LogsKeepReports'
    BY <1>1, <1>2, <1>5 DEF Serve, Admit, Unauthorized, EndUnlogged
  <1>6. ASSUME NEW e \in BOOLEAN, NEW t \in Tokens, Create(e, t) PROVE LogsKeepReports'
    BY <1>1, <1>6 DEF Create, requestVars
  <1>7. ASSUME NEW k \in Ids, Delete(k) PROVE LogsKeepReports'
    BY <1>1, <1>7 DEF Delete, requestVars
  <1>8. CASE Restart
    BY <1>1, <1>8 DEF Restart
  <1>9. CASE UNCHANGED downstreamVars
    BY <1>1, <1>9 DEF downstreamVars
  <1> QED
    BY <1>3, <1>4, <1>5, <1>6, <1>7, <1>8, <1>9 DEF Next

(* A log row keeps what the upstream reported wherever that is consistent. *)
THEOREM ReportsKept == Spec => []LogsKeepReports
  <1>1. TypeOK /\ TypeOK' /\ LogsKeepReports /\ [Next]_downstreamVars => LogsKeepReports'
    BY KeepsStep
  <1> QED
    BY <1>1, KeepsInit, TypeCorrect, PTL DEF Spec
-----------------------------------------------------------------------------
(* What SumOver counts: n[r] pairs for each r of S.                        *)
Units(S, n) == UNION {{r} \X (1 .. n[r]) : r \in S}

LEMMA UnitsOfOne ==
  ASSUME NEW r, NEW m \in Nat
  PROVE  IsFiniteSet({r} \X (1 .. m)) /\ Cardinality({r} \X (1 .. m)) = m
  <1>1. IsFiniteSet({r}) /\ Cardinality({r}) = 1
    BY FS_Singleton
  <1>2. IsFiniteSet(1 .. m) /\ Cardinality(1 .. m) = m
    BY FS_Interval
  <1>3. /\ IsFiniteSet({r} \X (1 .. m))
        /\ Cardinality({r} \X (1 .. m)) = Cardinality({r}) * Cardinality(1 .. m)
    BY <1>1, <1>2, FS_Product
  <1>4. 1 * m = m
    OBVIOUS
  <1> QED
    BY <1>1, <1>2, <1>3, <1>4

LEMMA UnitsFinite ==
  ASSUME NEW S, IsFiniteSet(S), NEW n, \A r \in S : n[r] \in Nat
  PROVE  IsFiniteSet(Units(S, n))
  <1> DEFINE T == {{r} \X (1 .. n[r]) : r \in S}
             f == [r \in S |-> {r} \X (1 .. n[r])]
  <1>1. f \in Surjection(S, T)
    BY DEF Surjection
  <1>2. IsFiniteSet(T)
    BY <1>1, FS_Surjection
  <1>3. \A U \in T : IsFiniteSet(U)
    <2> TAKE U \in T
    <2>1. PICK r \in S : U = {r} \X (1 .. n[r])
      OBVIOUS
    <2>2. n[r] \in Nat
      OBVIOUS
    <2> QED
      BY <2>1, <2>2, UnitsOfOne
  <1> QED
    BY <1>2, <1>3, FS_UNION DEF Units

(* Sums: of nothing, of the same numbers, and with one more.               *)
LEMMA SumOfNothing == ASSUME NEW n PROVE SumOver({}, n) = 0
  <1>1. UNION {{r} \X (1 .. n[r]) : r \in {}} = {}
    OBVIOUS
  <1> QED
    BY <1>1, FS_EmptySet DEF SumOver

LEMMA SumSame ==
  ASSUME NEW S, NEW n, NEW m, \A r \in S : n[r] = m[r]
  PROVE  SumOver(S, n) = SumOver(S, m)
  <1>1. {{r} \X (1 .. n[r]) : r \in S} = {{r} \X (1 .. m[r]) : r \in S}
    OBVIOUS
  <1> QED
    BY <1>1 DEF SumOver

LEMMA SumAdd ==
  ASSUME NEW S, IsFiniteSet(S), NEW r, r \notin S,
         NEW n, \A q \in S \cup {r} : n[q] \in Nat
  PROVE  SumOver(S \cup {r}, n) = SumOver(S, n) + n[r]
  <1> DEFINE one == {r} \X (1 .. n[r])
  <1>1. Units(S \cup {r}, n) = Units(S, n) \cup one
    BY DEF Units
  <1>2. Units(S, n) \cap one = {}
    BY DEF Units
  <1>3. IsFiniteSet(one) /\ Cardinality(one) = n[r]
    BY UnitsOfOne
  <1>4. IsFiniteSet(Units(S, n)) /\ Cardinality(Units(S, n)) \in Nat
    BY UnitsFinite, FS_CardinalityType
  <1> HIDE DEF one
  <1>5. Cardinality(Units(S, n) \cup one) =
          Cardinality(Units(S, n)) + Cardinality(one) - Cardinality(Units(S, n) \cap one)
    BY <1>3, <1>4, FS_Union
  <1>6. Cardinality(Units(S \cup {r}, n)) = Cardinality(Units(S, n)) + n[r]
    <2>1. Cardinality(Units(S, n) \cap one) = 0
      BY <1>2, FS_EmptySet
    <2>2. n[r] \in Nat
      OBVIOUS
    <2>3. Cardinality(Units(S \cup {r}, n)) = Cardinality(Units(S, n) \cup one)
      BY <1>1
    <2> QED
      BY <1>3, <1>4, <1>5, <2>1, <2>2, <2>3
  <1>7. \A R : SumOver(R, n) = Cardinality(Units(R, n))
    BY DEF SumOver, Units
  <1> QED
    BY <1>6, <1>7

-----------------------------------------------------------------------------
(* A request in service or logged has in its context the key its token was *)
(* generated for, and no token is of a key that is still to come.          *)
ChargesOwned ==
  /\ \A r \in Requests : pc[r] = "new" => as[r] = NoKey
  /\ \A r \in Requests : pc[r] \in {"serving", "logged"} =>
       \/ bearer[r] = EnvToken /\ as[r] = NoKey
       \/ bearer[r] \in Tokens /\ as[r] \in Ids /\ owner[bearer[r]] = as[r]
  /\ \A t \in Tokens : owner[t] <= lastId

UsageInv == TokenInv /\ ChargesOwned /\ UsageExact

(* The parts of the type invariant that the steps below read.              *)
LEMMA UsageTypes ==
  ASSUME TypeOK
  PROVE  /\ keys \in [Ids -> Key] /\ usage \in [Ids -> Counts] /\ lastId \in Nat
         /\ pc \in [Requests -> {"new", "serving", "logged", "done"}]
         /\ as \in [Requests -> Ids \cup {NoKey}]
         /\ owner \in [Tokens -> Ids \cup {NoKey}]
         /\ bearer \in [Requests -> Tokens \cup {EnvToken, NoToken}]
         /\ reported \in [Requests -> Report]
         /\ \A k \in Ids : Exists(k) => keys[k].token \in Tokens
         /\ \A a \in Admins : job[a].pc # "idle" => job[a].key \in Ids
         /\ NoKey \notin Ids /\ NoKey = 0 /\ Ids \subseteq Nat
         /\ EnvToken \notin Tokens /\ IsFiniteSet(Requests)
  <1>1. NoKey \notin Ids /\ NoKey = 0 /\ Ids \subseteq Nat /\ lastId \in Nat
    BY DownstreamAssumption DEF TypeOK, Ids, NoKey
  <1> QED
    BY <1>1, DownstreamAssumption DEF TypeOK

LEMMA ChargedFinite ==
  ASSUME NEW k PROVE IsFiniteSet(ChargedTo(k)) /\ ChargedTo(k) \subseteq Requests
  <1>1. ChargedTo(k) \in SUBSET Requests
    BY DEF ChargedTo
  <1> QED
    BY <1>1, FS_Subset, DownstreamAssumption

-----------------------------------------------------------------------------
(* The three numbers that are added up, by request.                        *)
Prompts     == [r \in Requests |-> Normalize(reported[r]).prompt]
Completions == [r \in Requests |-> Normalize(reported[r]).completion]
Totals      == [r \in Requests |-> Normalize(reported[r]).total]

ExactFor(k) ==
  /\ usage[k].requests = Cardinality(ChargedTo(k))
  /\ usage[k].prompt = SumOver(ChargedTo(k), Prompts)
  /\ usage[k].completion = SumOver(ChargedTo(k), Completions)
  /\ usage[k].total = SumOver(ChargedTo(k), Totals)

LEMMA ExactMeans == UsageExact <=> \A k \in Ids : Exists(k) => ExactFor(k)
  BY DEF UsageExact, ExactFor, Prompts, Completions, Totals

LEMMA ExactMeansNext == UsageExact' <=> \A k \in Ids : Exists(k)' => ExactFor(k)'
  BY DEF UsageExact, ExactFor, Prompts, Completions, Totals

LEMMA UsageInit == Init => UsageInv
  <1> SUFFICES ASSUME Init PROVE ChargesOwned /\ UsageExact
    BY TokenInit DEF UsageInv
  <1>1. \A k : ChargedTo(k) = {}
    BY DEF ChargedTo, Init
  <1>2. \A k \in Ids : usage[k] = NoCounts
    BY DEF Init
  <1>3. UsageExact
    <2>1. Cardinality({}) = 0
      BY FS_EmptySet
    <2> QED
      BY <1>1, <1>2, <2>1, SumOfNothing, ExactMeans DEF ExactFor, NoCounts
  <1>4. \A t \in Tokens : owner[t] <= lastId
    <2>1. CASE lastId = 0 /\ owner = [t \in Tokens |-> NoKey]
      BY <2>1 DEF NoKey
    <2>2. CASE lastId = 1 /\ \E old \in Tokens :
                 owner = [t \in Tokens |-> IF t = old THEN 1 ELSE NoKey]
      BY <2>2 DEF NoKey
    <2> QED
      BY <2>1, <2>2 DEF Init
  <1>5. \A r \in Requests : pc[r] = "new" /\ as[r] = NoKey
    BY DEF Init
  <1> QED
    BY <1>3, <1>4, <1>5 DEF ChargesOwned

(* ChargesOwned: whoever is admitted is given the owner of the token.      *)
LEMMA ChargesStep == TokenInv /\ ChargesOwned /\ [Next]_downstreamVars => ChargesOwned'
  <1> SUFFICES ASSUME TokenInv, ChargesOwned, [Next]_downstreamVars PROVE ChargesOwned'
    OBVIOUS
  <1>0. TypeOK /\ TokensOwned
    BY DEF TokenInv
  <1> USE <1>0, UsageTypes DEF ChargesOwned
  <1>1. ASSUME UNCHANGED <<owner, lastId, as, bearer>>,
               \A r \in Requests : \/ pc'[r] \in {pc[r], "done"}
                                   \/ pc[r] = "serving" /\ pc'[r] = "logged"
        PROVE  ChargesOwned'
    BY <1>1
  <1>2. ASSUME UNCHANGED <<pc, as, bearer>>, NEW t \in Tokens, owner[t] = NoKey,
               NEW k \in Ids, owner' = [owner EXCEPT ![t] = k],
               lastId' \in Nat, lastId' >= lastId, k <= lastId'
        PROVE  ChargesOwned'
    <2>1. \A s \in Tokens : owner'[s] <= lastId'
      BY <1>2
    <2>2. \A s \in Tokens : owner[s] # NoKey => owner'[s] = owner[s]
      BY <1>2
    <2> QED
      BY <1>2, <2>1, <2>2
  <1>3. ASSUME NEW e \in BOOLEAN, NEW t \in Tokens, Create(e, t) PROVE ChargesOwned'
    <2>1. lastId + 1 \in Ids
      BY <1>3, DownstreamAssumption DEF Create, Ids
    <2>2. /\ owner[t] = NoKey /\ owner' = [owner EXCEPT ![t] = lastId + 1]
          /\ lastId' = lastId + 1 /\ UNCHANGED <<pc, as, bearer>>
      BY <1>3 DEF Create, Fresh, FreshId, requestVars
    <2>3. lastId' \in Nat /\ lastId' >= lastId /\ lastId + 1 <= lastId'
      BY <2>2
    <2> QED
      BY <1>2, <2>1, <2>2, <2>3
  <1>4. ASSUME NEW a \in Admins, NEW t \in Tokens, RegenerateWrite(a, t)
        PROVE  ChargesOwned'
    <2> DEFINE k == job[a].key
    <2>1. k \in Ids /\ Exists(k)
      BY <1>4 DEF RegenerateWrite, At
    <2>2. k <= lastId
      BY <2>1 DEF TokensOwned
    <2>3. owner[t] = NoKey /\ owner' = [owner EXCEPT ![t] = k]
          /\ UNCHANGED <<lastId, pc, as, bearer>>
      BY <1>4 DEF RegenerateWrite, Fresh, requestVars
    <2> HIDE DEF k
    <2> QED
      BY <1>2, <2>1, <2>2, <2>3
  <1>5. ASSUME NEW a \in Admins, Administer(a) PROVE ChargesOwned'
    BY <1>1, <1>4, <1>5 DEF Administer, UpdateRead, UpdateWrite, RegenerateRead,
                            Abort, requestVars
  <1>6. ASSUME NEW r \in Requests, NEW t \in Tokens \cup {EnvToken}, Admit(r, t)
        PROVE  ChargesOwned'
    <2>1. /\ pc[r] = "new" /\ pc' = [pc EXCEPT ![r] = "serving"]
          /\ bearer' = [bearer EXCEPT ![r] = t] /\ UNCHANGED <<owner, lastId>>
      BY <1>6 DEF Admit, adminVars
    <2>2. \/ t = EnvToken /\ as' = as
          \/ t \in Tokens /\ \E k \in Ids : owner[t] = k /\ as' = [as EXCEPT ![r] = k]
      BY <1>6 DEF Admit, Opens, TokensOwned
    <2>3. as[r] = NoKey
      BY <2>1
    <2>4. \/ bearer'[r] = EnvToken /\ as'[r] = NoKey
          \/ bearer'[r] \in Tokens /\ as'[r] \in Ids /\ owner[bearer'[r]] = as'[r]
      BY <2>1, <2>2, <2>3
    <2>5. \A q \in Requests \ {r} : pc'[q] = pc[q] /\ as'[q] = as[q] /\ bearer'[q] = bearer[q]
      BY <2>1, <2>2
    <2> QED
      BY <2>1, <2>4, <2>5
  <1>7. ASSUME NEW r \in Requests, Serve(r) PROVE ChargesOwned'
    <2>1. CASE \E u \in Reports : Insert(r, u)
      <3>1. /\ pc[r] = "serving" /\ pc' = [pc EXCEPT ![r] = "logged"]
            /\ UNCHANGED <<owner, lastId, as, bearer>>
        BY <2>1 DEF Insert, adminVars
      <3> QED
        BY <1>1, <3>1
    <2>2. CASE EndUnlogged(r) \/ \E t \in Tokens : Unauthorized(r, t)
      <3>1. /\ pc' = [pc EXCEPT ![r] = "done"]
            /\ UNCHANGED <<owner, lastId, as, bearer>>
        BY <2>2 DEF Unauthorized, EndUnlogged, adminVars
      <3> QED
        BY <1>1, <3>1
    <2> QED
      BY <1>6, <1>7, <2>1, <2>2 DEF Serve
  <1>8. ASSUME NEW k \in Ids, Delete(k) PROVE ChargesOwned'
    BY <1>1, <1>8 DEF Delete, requestVars
  <1>9. ASSUME NEW rows \in SUBSET Requests, DeleteLogs(rows) PROVE ChargesOwned'
    BY <1>1, <1>9 DEF DeleteLogs, adminVars
  <1>10. CASE Restart
    BY <1>1, <1>10 DEF Restart
  <1>11. CASE UNCHANGED downstreamVars
    BY <1>1, <1>11 DEF downstreamVars
  <1> QED
    BY <1>3, <1>5, <1>7, <1>8, <1>9, <1>10, <1>11 DEF Next

-----------------------------------------------------------------------------
(* A key whose charges, reports and counters stay as they are stays exact. *)
LEMMA ExactStays ==
  ASSUME NEW k \in Ids, ExactFor(k), usage'[k] = usage[k], ChargedTo(k)' = ChargedTo(k),
         \A r \in ChargedTo(k) : reported'[r] = reported[r]
  PROVE  ExactFor(k)'
  <1> DEFINE C == ChargedTo(k)
  <1>1. C \subseteq Requests
    BY ChargedFinite
  <1>2. \A r \in C : /\ Prompts'[r] = Prompts[r]
                     /\ Completions'[r] = Completions[r]
                     /\ Totals'[r] = Totals[r]
    BY <1>1 DEF Prompts, Completions, Totals
  <1>3. /\ SumOver(C, Prompts') = SumOver(C, Prompts)
        /\ SumOver(C, Completions') = SumOver(C, Completions)
        /\ SumOver(C, Totals') = SumOver(C, Totals)
    <2> HIDE DEF C
    <2> QED
      BY <1>2, SumSame
  <1> QED
    BY <1>3 DEF ExactFor

(* Who is charged stays as it is if no request is logged and the tokens    *)
(* keep their owners: bearers of tokens that have none are not in service. *)
LEMMA ChargedStays ==
  ASSUME ChargesOwned, NEW k \in Ids, 0 \notin Ids,
         \A r \in Requests : pc'[r] = "logged" <=> pc[r] = "logged",
         \A r \in Requests : pc[r] = "logged" => bearer'[r] = bearer[r],
         \A t \in Tokens : owner[t] # NoKey => owner'[t] = owner[t]
  PROVE  ChargedTo(k)' = ChargedTo(k)
  <1>1. \A r \in Requests : pc[r] = "logged" /\ bearer[r] # EnvToken
          => owner'[bearer[r]] = owner[bearer[r]]
    <2> TAKE r \in Requests
    <2> HAVE pc[r] = "logged" /\ bearer[r] # EnvToken
    <2>1. bearer[r] \in Tokens /\ as[r] \in Ids /\ owner[bearer[r]] = as[r]
      BY DEF ChargesOwned
    <2>2. owner[bearer[r]] # NoKey
      BY <2>1 DEF NoKey
    <2> QED
      BY <2>1, <2>2
  <1> QED
    BY <1>1 DEF ChargedTo

LEMMA UnloggedStep ==
  ASSUME TypeOK, ChargesOwned, UsageExact,
         \A r \in Requests : pc'[r] = "logged" <=> pc[r] = "logged",
         \A r \in Requests : pc[r] = "logged" => bearer'[r] = bearer[r],
         \A t \in Tokens : owner[t] # NoKey => owner'[t] = owner[t],
         reported' = reported,
         \A k \in Ids : Exists(k)' => Exists(k) /\ usage'[k] = usage[k]
  PROVE  UsageExact'
  <1>1. ASSUME NEW k \in Ids, Exists(k)' PROVE ExactFor(k)'
    <2>1. Exists(k) /\ usage'[k] = usage[k]
      BY <1>1
    <2>2. ExactFor(k)
      BY <2>1, ExactMeans
    <2>3. ChargedTo(k)' = ChargedTo(k)
      BY ChargedStays, UsageTypes
    <2> QED
      BY <2>1, <2>2, <2>3, ExactStays
  <1> QED
    BY <1>1, ExactMeansNext

(* A new key has no counts, and nobody has come with its token.            *)
LEMMA CreateExact ==
  ASSUME UsageInv, NEW e \in BOOLEAN, NEW t \in Tokens, Create(e, t)
  PROVE  UsageExact'
  <1>0. TypeOK /\ ChargesOwned
    BY DEF UsageInv, TokenInv
  <1>1. lastId + 1 \in Ids /\ lastId \in Nat
    BY <1>0, UsageTypes, DownstreamAssumption DEF Create, Ids
  <1> PICK k \in Ids : k = lastId + 1
    BY <1>1
  <1>2. /\ keys' = [keys EXCEPT ![k] = NewKey(e, t)]
        /\ usage' = [usage EXCEPT ![k] = NoCounts]
        /\ owner[t] = NoKey /\ owner' = [owner EXCEPT ![t] = k]
        /\ UNCHANGED <<pc, as, bearer, reported>>
    BY DEF Create, Fresh, FreshId, requestVars
  <1>3. \A s \in Tokens : owner[s] # NoKey => owner'[s] = owner[s]
    BY <1>0, <1>2, UsageTypes
  <1>4. ASSUME NEW l \in Ids, Exists(l)', l # k PROVE ExactFor(l)'
    <2>1. Exists(l) /\ usage'[l] = usage[l]
      BY <1>0, <1>1, <1>2, <1>4, UsageTypes DEF Exists
    <2>2. ChargedTo(l)' = ChargedTo(l)
      BY <1>0, <1>2, <1>3, ChargedStays, UsageTypes
    <2>3. ExactFor(l)
      BY <2>1, ExactMeans DEF UsageInv
    <2> QED
      BY <1>2, <2>1, <2>2, <2>3, ExactStays
  <1>5. ExactFor(k)'
    <2>1. ASSUME NEW r \in Requests, pc[r] = "logged", bearer[r] # EnvToken
          PROVE  owner'[bearer[r]] # k
      <3>1. bearer[r] \in Tokens /\ owner[bearer[r]] \in Ids
        BY <1>0, <2>1 DEF ChargesOwned
      <3>2. owner'[bearer[r]] = owner[bearer[r]] /\ owner[bearer[r]] <= lastId
        BY <1>0, <1>3, <3>1, UsageTypes DEF ChargesOwned
      <3> QED
        BY <1>0, <1>1, <3>1, <3>2, UsageTypes
    <2>2. ChargedTo(k)' = {}
      <3>1. \A r \in Requests : ~(pc'[r] = "logged" /\ bearer'[r] # EnvToken
                                  /\ owner'[bearer'[r]] = k)
        BY <1>2, <2>1
      <3> QED
        BY <3>1 DEF ChargedTo
    <2>3. usage'[k] = NoCounts
      BY <1>0, <1>1, <1>2, UsageTypes
    <2>4. Cardinality({}) = 0
      BY FS_EmptySet
    <2> QED
      BY <2>2, <2>3, <2>4, SumOfNothing DEF ExactFor, NoCounts
  <1>6. \A l \in Ids : Exists(l)' => ExactFor(l)'
    BY <1>4, <1>5
  <1> QED
    BY <1>6, ExactMeansNext

(* A log row is charged to the key in the context of its request, once.    *)
LEMMA InsertExact ==
  ASSUME UsageInv, NEW r \in Requests, NEW u \in Reports, Insert(r, u)
  PROVE  UsageExact'
  <1> DEFINE b == Normalize(u)
  <1>0. TypeOK /\ ChargesOwned
    BY DEF UsageInv, TokenInv
  <1>1. b \in Booked
    BY NormalizeBooks, DownstreamAssumption
  <1>2. /\ pc[r] = "serving" /\ pc' = [pc EXCEPT ![r] = "logged"]
        /\ reported' = [reported EXCEPT ![r] = u]
        /\ UNCHANGED <<keys, owner, as, bearer>>
    BY DEF Insert, adminVars
  <1>3. \A k \in Ids : r \notin ChargedTo(k)
    BY <1>2 DEF ChargedTo
  <1>4. \/ bearer[r] = EnvToken /\ as[r] = NoKey
        \/ bearer[r] # EnvToken /\ as[r] \in Ids /\ owner[bearer[r]] = as[r]
    BY <1>0, <1>2, UsageTypes DEF ChargesOwned
  <1>5. \A k \in Ids : ChargedTo(k)' = IF k = as[r] THEN ChargedTo(k) \cup {r}
                                       ELSE ChargedTo(k)
    BY <1>0, <1>2, <1>4, UsageTypes DEF ChargedTo
  <1>6. ASSUME NEW k \in Ids, Exists(k), k # as[r] PROVE ExactFor(k)'
    <2>1. usage'[k] = usage[k]
      BY <1>0, <1>6, UsageTypes DEF Insert
    <2>2. \A q \in ChargedTo(k) : reported'[q] = reported[q]
      BY <1>0, <1>2, <1>3, UsageTypes
    <2> QED
      BY <1>5, <1>6, <2>1, <2>2, ExactStays, ExactMeans DEF UsageInv
  <1>7. ASSUME NEW k \in Ids, Exists(k), k = as[r] PROVE ExactFor(k)'
    <2> DEFINE C == ChargedTo(k)
    <2>1. usage'[k] = Plus(usage[k], b)
      BY <1>0, <1>7, UsageTypes DEF Insert
    <2>2. IsFiniteSet(C) /\ C \subseteq Requests /\ r \notin C /\ ChargedTo(k)' = C \cup {r}
      BY <1>3, <1>5, <1>7, ChargedFinite
    <2>3. /\ usage'[k].requests = usage[k].requests + 1
          /\ usage'[k].prompt = usage[k].prompt + b.prompt
          /\ usage'[k].completion = usage[k].completion + b.completion
          /\ usage'[k].total = usage[k].total + b.total
      BY <2>1 DEF Plus
    <2>4. ExactFor(k)
      BY <1>7, ExactMeans DEF UsageInv
    <2>5. \A q \in Requests : Normalize(reported'[q]) \in Booked
      <3>1. reported' \in [Requests -> Report]
        BY <1>0, <1>2, UsageTypes, DownstreamAssumption
      <3> QED
        BY <3>1, NormalizeBooks
    <2>6. /\ \A q \in Requests : /\ Prompts'[q] \in Nat
                                 /\ Completions'[q] \in Nat
                                 /\ Totals'[q] \in Nat
          /\ Prompts'[r] = b.prompt
          /\ Completions'[r] = b.completion
          /\ Totals'[r] = b.total
      <3>1. reported'[r] = u
        BY <1>0, <1>2, UsageTypes
      <3> QED
        BY <2>5, <3>1 DEF Prompts, Completions, Totals, Booked
    <2>7. \A q \in C : /\ Prompts'[q] = Prompts[q]
                       /\ Completions'[q] = Completions[q]
                       /\ Totals'[q] = Totals[q]
      <3>1. \A q \in C : reported'[q] = reported[q]
        BY <1>0, <1>2, <2>2, UsageTypes
      <3> QED
        BY <2>2, <3>1 DEF Prompts, Completions, Totals
    <2> HIDE DEF C, b
    <2>8. /\ SumOver(C \cup {r}, Prompts') = SumOver(C, Prompts) + b.prompt
          /\ SumOver(C \cup {r}, Completions') = SumOver(C, Completions) + b.completion
          /\ SumOver(C \cup {r}, Totals') = SumOver(C, Totals) + b.total
      <3>1. /\ SumOver(C, Prompts') = SumOver(C, Prompts)
            /\ SumOver(C, Completions') = SumOver(C, Completions)
            /\ SumOver(C, Totals') = SumOver(C, Totals)
        BY <2>7, SumSame
      <3>2. /\ SumOver(C \cup {r}, Prompts') = SumOver(C, Prompts') + Prompts'[r]
            /\ SumOver(C \cup {r}, Completions') = SumOver(C, Completions') + Completions'[r]
            /\ SumOver(C \cup {r}, Totals') = SumOver(C, Totals') + Totals'[r]
        BY <2>2, <2>6, SumAdd
      <3> QED
        BY <2>6, <3>1, <3>2
    <2>9. Cardinality(C \cup {r}) = Cardinality(C) + 1
      BY <2>2, FS_AddElement
    <2>10. /\ usage[k].requests = Cardinality(C)
           /\ usage[k].prompt = SumOver(C, Prompts)
           /\ usage[k].completion = SumOver(C, Completions)
           /\ usage[k].total = SumOver(C, Totals)
      BY <2>4 DEF C, ExactFor
    <2> QED
      BY <2>2, <2>3, <2>8, <2>9, <2>10 DEF ExactFor
  <1>8. \A k \in Ids : Exists(k)' <=> Exists(k)
    BY <1>2 DEF Exists
  <1> QED
    BY <1>6, <1>7, <1>8, ExactMeansNext

LEMMA UsageStep == UsageInv /\ [Next]_downstreamVars => UsageInv'
  <1> SUFFICES ASSUME UsageInv, [Next]_downstreamVars PROVE UsageExact'
    BY TokenStep, ChargesStep DEF UsageInv
  <1>0. TypeOK /\ ChargesOwned /\ UsageExact
    BY DEF UsageInv, TokenInv
  <1>1. ASSUME UNCHANGED <<owner, reported>>,
               \A r \in Requests : pc'[r] = "logged" <=> pc[r] = "logged",
               \A r \in Requests : pc[r] = "logged" => bearer'[r] = bearer[r],
               \A k \in Ids : Exists(k)' => Exists(k) /\ usage'[k] = usage[k]
        PROVE  UsageExact'
    BY <1>0, <1>1, UnloggedStep
  <1>2. ASSUME NEW k \in Ids, Delete(k) PROVE UsageExact'
    <2>1. \A l \in Ids : Exists(l)' => Exists(l) /\ usage'[l] = usage[l]
      BY <1>0, <1>2, UsageTypes DEF Delete, Exists, AbsentKey
    <2> QED
      BY <1>1, <1>2, <2>1 DEF Delete, requestVars
  <1>3. ASSUME NEW a \in Admins, Administer(a) PROVE UsageExact'
    <2>1. CASE UpdateWrite(a)
      <3>1. job[a].key \in Ids
        BY <1>0, <2>1, UsageTypes DEF UpdateWrite, At
      <3>2. \A l \in Ids : keys'[l].exists = keys[l].exists
        BY <1>0, <2>1, <3>1, UsageTypes DEF UpdateWrite, Key
      <3> QED
        BY <1>1, <2>1, <3>2 DEF UpdateWrite, Exists, requestVars
    <2>2. CASE \E t \in Tokens : RegenerateWrite(a, t)
      <3>1. PICK t \in Tokens : RegenerateWrite(a, t)
        BY <2>2
      <3>2. job[a].key \in Ids
        BY <1>0, <3>1, UsageTypes DEF RegenerateWrite, At
      <3>3. \A l \in Ids : keys'[l].exists = keys[l].exists
        BY <1>0, <3>1, <3>2, UsageTypes DEF RegenerateWrite, Key
      <3>4. \A s \in Tokens : owner[s] # NoKey => owner'[s] = owner[s]
        BY <1>0, <3>1, UsageTypes DEF RegenerateWrite, Fresh
      <3>5. UNCHANGED <<usage, pc, bearer, reported>>
        BY <3>1 DEF RegenerateWrite, requestVars
      <3> QED
        BY <1>0, <3>3, <3>4, <3>5, UnloggedStep DEF Exists
    <2> QED
      BY <1>1, <1>3, <2>1, <2>2 DEF Administer, UpdateRead, RegenerateRead, Abort,
                                    requestVars, Exists
  <1>4. ASSUME NEW r \in Requests, Serve(r) PROVE UsageExact'
    <2>1. CASE \E u \in Reports : Insert(r, u)
      BY <2>1, InsertExact
    <2>2. CASE \E t \in Tokens \cup {EnvToken} : Admit(r, t)
      BY <1>0, <1>1, <2>2, UsageTypes DEF Admit, adminVars, Exists
    <2>3. CASE \E t \in Tokens : Unauthorized(r, t)
      BY <1>0, <1>1, <2>3, UsageTypes DEF Unauthorized, adminVars, Exists
    <2>4. CASE EndUnlogged(r)
      BY <1>0, <1>1, <2>4, UsageTypes DEF EndUnlogged, adminVars, Exists
    <2> QED
      BY <1>4, <2>1, <2>2, <2>3, <2>4 DEF Serve
  <1>5. ASSUME NEW rows \in SUBSET Requests, DeleteLogs(rows) PROVE UsageExact'
    BY <1>1, <1>5 DEF DeleteLogs, adminVars, Exists
  <1>6. CASE Restart
    BY <1>0, <1>1, <1>6, UsageTypes DEF Restart, Exists
  <1>7. CASE UNCHANGED downstreamVars
    BY <1>1, <1>7 DEF downstreamVars, Exists
  <1> QED
    BY <1>2, <1>3, <1>4, <1>5, <1>6, <1>7, CreateExact DEF Next

(* The counters of a key are exactly the sums over the requests that came  *)
(* with its tokens, for any number of requests, tokens, keys and reports.  *)
THEOREM UsageCountsExact == Spec => []UsageExact
  <1>1. UsageInv => UsageExact
    BY DEF UsageInv
  <1> QED
    BY <1>1, UsageInit, UsageStep, PTL DEF Spec
=============================================================================
