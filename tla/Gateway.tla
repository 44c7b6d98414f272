------------------------------- MODULE Gateway -------------------------------
(***************************************************************************)
(* POST /v1/chat/completions, from the catalog to the answer:              *)
(* handleChatCompletions of app/handlers_gateway.go with the calls it      *)
(* makes to the catalog, to StateStore and its in-flight counters, to the  *)
(* selector, to the key and log stores and to the upstream.                *)
(*                                                                         *)
(* pc[r] is where request r stands.  Between any two of its statements    *)
(* other requests, the probes and the administrator act: they delete keys  *)
(* and report outcomes.  Registry models what they do in detail; here they *)
(* may do it at any time, and the catalog may list any keys, since it can  *)
(* lag behind the tables for as long as one likes.                         *)
(*                                                                         *)
(* A client may leave at any time.  Its request's context is then          *)
(* cancelled: every later statement and the upstream call fail.            *)
(***************************************************************************)
EXTENDS Integers, FiniteSets, Selection

CONSTANTS
    Keys,         \* upstream keys, all of which exist at first
    Requests,     \* requests, each of which arrives at most once
    Probers,      \* goroutines that probe keys
    Base, Cap, MaxNow, MaxFailures

ASSUME RequestsAssumption == Requests \cap Probers = {} /\ IsFiniteSet(Requests)
ASSUME HealthAssumption ==
    /\ Keys \subseteq Nat \ {0}
    /\ Base \in Nat \ {0} /\ Cap \in Nat \ {0}
    /\ MaxNow \in Nat /\ MaxFailures \in Nat

VARIABLES
    exists,       \* the ids in upstream_keys
    inflight,     \* StateStore.inflight; 0 for an id that is not in the map
    pc,           \* pc[r]: where request r stands
    route,        \* route[r]: what its routing has read so far
    key,          \* key[r]: the selected key
    reply,        \* reply[r]: what came of it
    gone,         \* the requests whose clients have left
    logs,         \* logs[r]: the row of r in request_logs, or "none"
    due,          \* history: the earliest end of a cooldown since r arrived
    born,         \* history: the keys there were when r arrived
    keyState, mark, now, recorded

H == INSTANCE KeyHealth WITH Deletable <- Keys, Callers <- Requests \cup Probers

healthVars  == <<keyState, mark, now, recorded>>
requestVars == <<pc, route, key, reply, gone>>
gatewayVars == <<exists, inflight, pc, route, key, reply, gone, logs, due, born,
                 keyState, mark, now, recorded>>

-----------------------------------------------------------------------------
Pcs     == {"new", "ensure", "query", "clock", "load", "select", "get", "enter",
            "upstream", "streaming", "log", "mark", "marking", "answer", "leave", "done"}
Answers == {"none", "rejected", "ok", "error", "partial"}

Route == [ids : SUBSET Keys,          \* keyIDs
          left : SUBSET Keys,         \* ids a loop has still to visit
          until : [Keys -> Nat],      \* cooldown_until, as the query read it
          cooling : SUBSET Keys,      \* the candidates that cool down
          load : [Keys -> Nat]]       \* Inflight of the candidates
Reply == [stream : BOOLEAN, outcome : {"none", "ok", "error"}, answer : Answers]

Zero      == [k \in Keys |-> 0]
Over(ids) == [ids |-> ids, left |-> ids, until |-> Zero, cooling |-> {}, load |-> Zero]
NoRoute   == Over({})
NoReply   == [stream |-> FALSE, outcome |-> "none", answer |-> "none"]

At(r, label)   == pc[r] = label
Goto(r, label) == pc' = [pc EXCEPT ![r] = label]

(* The pcs at which a request is being routed, and those at which it       *)
(* counts as in flight on its key.                                         *)
RoutingPcs == {"ensure", "query", "clock", "load", "select", "get", "enter"}
HoldingPcs == {"upstream", "streaming", "log", "mark", "marking", "answer", "leave"}
Holding(k) == {r \in Requests : pc[r] \in HoldingPcs /\ key[r] = k}

(* Until r is sent: for each key the earliest cooldown_until the key has   *)
(* had since r arrived, 0 once that is over; and the keys there were then. *)
Earliest(k, t) ==
    LET ends == keyState'[k].until IN
    IF ends <= now' \/ t <= now' THEN 0 ELSE IF ends < t THEN ends ELSE t

Observe ==
    /\ due' = [r \in Requests |->
                 CASE At(r, "new")        -> [k \in Keys |-> Earliest(k, keyState'[k].until)]
                   [] pc[r] \in RoutingPcs -> [k \in Keys |-> Earliest(k, due[r][k])]
                   [] OTHER                -> Zero]
    /\ born' = [r \in Requests |-> CASE At(r, "new")        -> exists'
                                    [] pc[r] \in RoutingPcs -> born[r]
                                    [] OTHER                -> {}]

(* Steps that only a request itself can see.                               *)
Private == UNCHANGED <<exists, inflight, logs, healthVars>> /\ Observe

(* The routing answers an error and is over.                               *)
Reject(r) ==
    /\ Goto(r, "done")
    /\ reply' = [reply EXCEPT ![r].answer = "rejected"]
    /\ route' = [route EXCEPT ![r] = NoRoute]
    /\ UNCHANGED <<key, gone>>

Foremost(k, S) == k \in S /\ \A l \in S : k <= l

-----------------------------------------------------------------------------
Init ==
    /\ exists = Keys
    /\ inflight = Zero
    /\ pc = [r \in Requests |-> "new"]
    /\ route = [r \in Requests |-> NoRoute]
    /\ key = [r \in Requests |-> H!NoKey]
    /\ reply = [r \in Requests |-> NoReply]
    /\ gone = {}
    /\ logs = [r \in Requests |-> "none"]
    /\ due = [r \in Requests |-> Zero]
    /\ born = [r \in Requests |-> {}]
    /\ H!Init

-----------------------------------------------------------------------------
(* Routing: from the catalog to the selected key                           *)

(* catalog.KeysForModel yields ids.  The catalog may be stale, so these    *)
(* may be any keys there ever were; without any the answer is 400.         *)
Arrive(r, stream, ids) ==
    /\ At(r, "new") /\ ids # {}
    /\ Goto(r, "ensure")
    /\ route' = [route EXCEPT ![r] = Over(ids)]
    /\ reply' = [reply EXCEPT ![r].stream = stream]
    /\ UNCHANGED <<key, gone>> /\ Private

NoKeyForModel(r) == At(r, "new") /\ Reject(r) /\ Private

(* Candidates ensures a row for each id in turn, in the catalog's order.   *)
EnsureCandidate(r) ==
    /\ At(r, "ensure") /\ r \notin gone
    /\ \E k \in Keys :
          /\ Foremost(k, route[r].left)
          /\ H!Ensure(k)
          /\ route' = [route EXCEPT ![r].left = @ \ {k}]
          /\ Goto(r, IF route[r].left = {k} THEN "query" ELSE "ensure")
    /\ UNCHANGED <<key, reply, gone, exists, inflight, logs>> /\ Observe

(* One select reads all rows; an id without a row has no cooldown.         *)
QueryCandidates(r) ==
    /\ At(r, "query") /\ r \notin gone
    /\ Goto(r, "clock")
    /\ route' = [route EXCEPT ![r].until = [k \in Keys |-> IF k \in route[r].ids
                                                           THEN keyState[k].until ELSE 0]]
    /\ UNCHANGED <<key, reply, gone>> /\ Private

(* Bug: the cooldown counts as over one tick before it is.                 *)
ReadClockEarly(r) ==
    /\ At(r, "clock")
    /\ Goto(r, "load")
    /\ route' = [route EXCEPT ![r].left = route[r].ids, ![r].until = Zero,
                      ![r].cooling = {k \in route[r].ids : now + 1 < route[r].until[k]}]
    /\ UNCHANGED <<key, reply, gone>> /\ Private

(* The clock is read once the rows are.                                    *)
ReadClock(r) ==
    /\ At(r, "clock")
    /\ Goto(r, "load")
    /\ route' = [route EXCEPT ![r].left = route[r].ids, ![r].until = Zero,
                      ![r].cooling = {k \in route[r].ids : now < route[r].until[k]}]
    /\ UNCHANGED <<key, reply, gone>> /\ Private

(* Inflight(k) takes the lock for each candidate on its own.               *)
ReadInflight(r) ==
    /\ At(r, "load")
    /\ \E k \in Keys :
          /\ Foremost(k, route[r].left)
          /\ route' = [route EXCEPT ![r].left = @ \ {k},
                                    ![r].load = [@ EXCEPT ![k] = inflight[k]]]
          /\ Goto(r, IF route[r].left = {k} THEN "select" ELSE "load")
    /\ UNCHANGED <<key, reply, gone>> /\ Private

(* Selector.Select (see Selector) ...                                      *)
Select(r) ==
    /\ At(r, "select")
    /\ \E k \in Keys :
          /\ Selected(k, route[r].ids \ route[r].cooling, route[r].load)
          /\ key' = [key EXCEPT ![r] = k]
    /\ Goto(r, "get")
    /\ route' = [route EXCEPT ![r].load = Zero]
    /\ UNCHANGED <<reply, gone>> /\ Private

(* ... which fails if all candidates cool down: the answer is 502.         *)
NoHealthyKeys(r) ==
    /\ At(r, "select") /\ route[r].ids \subseteq route[r].cooling
    /\ Reject(r) /\ Private

(* Bug: the key is taken from the catalog's copy.                          *)
GetKeyUnchecked(r) ==
    /\ At(r, "get") /\ r \notin gone
    /\ Goto(r, "enter")
    /\ UNCHANGED <<route, key, reply, gone>> /\ Private

(* keyStore.Get: a key deleted meanwhile is a 502, a disabled one is used. *)
GetKey(r) ==
    /\ At(r, "get") /\ r \notin gone
    /\ IF key[r] \in exists THEN Goto(r, "enter") /\ UNCHANGED <<route, key, reply, gone>>
       ELSE Reject(r)
    /\ Private

(* With the client gone, the next statement of the routing fails.          *)
RoutingFails(r) ==
    /\ pc[r] \in {"ensure", "query", "get"} /\ r \in gone
    /\ Reject(r) /\ Private

-----------------------------------------------------------------------------
(* Dispatch: from the slot on the key to the answer                        *)

(* IncrementInflight, whose counterpart is deferred.                       *)
Enter(r) ==
    /\ At(r, "enter")
    /\ inflight' = [inflight EXCEPT ![key[r]] = @ + 1]
    /\ Goto(r, "upstream")
    /\ UNCHANGED <<route, key, reply, gone, exists, logs, healthVars>> /\ Observe

(* The header of a stream is written: the answer is under way.             *)
StreamStarts(r) ==
    /\ At(r, "upstream") /\ reply[r].stream
    /\ Goto(r, "streaming")
    /\ reply' = [reply EXCEPT ![r].answer = "partial"]
    /\ UNCHANGED <<route, key, gone>> /\ Private

(* The upstream has answered in full, perhaps just before its call would   *)
(* have been cancelled.  A stream's client has it all by now if it is      *)
(* still there, other clients wait for the end of the handler.             *)
UpstreamSucceeds(r) ==
    /\ At(r, IF reply[r].stream THEN "streaming" ELSE "upstream")
    /\ Goto(r, "log")
    /\ reply' = [reply EXCEPT ![r].outcome = "ok",
                              ![r].answer = IF reply[r].stream /\ r \notin gone THEN "ok" ELSE @]
    /\ UNCHANGED <<route, key, gone>> /\ Private

(* It answers with an error, the 60 s of upstreamClient are over (they     *)
(* bound the body too), or the call is cancelled as the client has left.   *)
UpstreamFails(r) ==
    /\ pc[r] \in {"upstream", "streaming"}
    /\ Goto(r, "log")
    /\ reply' = [reply EXCEPT ![r].outcome = "error"]
    /\ UNCHANGED <<route, key, gone>> /\ Private

(* Bug: only successes are logged.                                         *)
LogSuccess(r) ==
    /\ At(r, "log")
    /\ logs' = IF r \in gone \/ reply[r].outcome = "error" THEN logs
               ELSE [logs EXCEPT ![r] = reply[r].outcome]
    /\ Goto(r, "mark")
    /\ UNCHANGED <<route, key, reply, gone, exists, inflight, healthVars>> /\ Observe

(* logStore.Insert; its error is ignored.                                  *)
Log(r) ==
    /\ At(r, "log")
    /\ logs' = IF r \in gone THEN logs ELSE [logs EXCEPT ![r] = reply[r].outcome]
    /\ Goto(r, "mark")
    /\ UNCHANGED <<route, key, reply, gone, exists, inflight, healthVars>> /\ Observe

Verdict(r) == IF reply[r].outcome = "ok" THEN "success" ELSE "failure"

(* Bug: the handler does not wait for the call it makes.                   *)
MarkInBackground(r) ==
    /\ At(r, "mark")
    /\ IF r \in gone THEN UNCHANGED healthVars ELSE H!MarkBegin(r, key[r], Verdict(r))
    /\ Goto(r, "answer")
    /\ UNCHANGED <<route, key, reply, gone, exists, inflight, logs>> /\ Observe

(* MarkSuccess or MarkFailure, in the context of the request; its error is *)
(* ignored.                                                                *)
Mark(r) ==
    /\ At(r, "mark")
    /\ IF r \in gone THEN Goto(r, "answer") /\ UNCHANGED healthVars
       ELSE Goto(r, "marking") /\ H!MarkBegin(r, key[r], Verdict(r))
    /\ UNCHANGED <<route, key, reply, gone, exists, inflight, logs>> /\ Observe

(* Bug: the context is looked at only when the call begins.                *)
MarkGoesOnDetached(r) ==
    /\ At(r, "marking")
    /\ H!MarkReset(r) \/ H!MarkRecheck(r) \/ H!MarkRead(r) \/ H!MarkWrite(r)
    /\ Goto(r, IF mark'[r] = H!NoCall THEN "answer" ELSE "marking")
    /\ UNCHANGED <<route, key, reply, gone, exists, inflight, logs>> /\ Observe

MarkGoesOn(r) ==
    /\ At(r, "marking")
    /\ IF r \in gone THEN H!MarkAbort(r)
       ELSE H!MarkReset(r) \/ H!MarkRecheck(r) \/ H!MarkRead(r) \/ H!MarkWrite(r)
    /\ Goto(r, IF mark'[r] = H!NoCall THEN "answer" ELSE "marking")
    /\ UNCHANGED <<route, key, reply, gone, exists, inflight, logs>> /\ Observe

(* The result or a 502; nothing once a stream has started.                 *)
Answer(r) ==
    /\ At(r, "answer")
    /\ Goto(r, "leave")
    /\ reply' = IF reply[r].answer # "none" THEN reply
                ELSE [reply EXCEPT ![r].answer = reply[r].outcome]
    /\ UNCHANGED <<route, key, gone>> /\ Private

(* Bug: the slot is given back only after a success.                       *)
LeaveOnSuccess(r) ==
    /\ At(r, "leave")
    /\ inflight' = IF reply[r].outcome # "ok" THEN inflight
                   ELSE [inflight EXCEPT ![key[r]] = @ - 1]
    /\ Goto(r, "done")
    /\ route' = [route EXCEPT ![r] = NoRoute]
    /\ UNCHANGED <<key, reply, gone, exists, logs, healthVars>> /\ Observe

(* DecrementInflight: at one or below the entry of the key goes.           *)
Leave(r) ==
    /\ At(r, "leave")
    /\ inflight' = [inflight EXCEPT ![key[r]] = IF @ <= 1 THEN 0 ELSE @ - 1]
    /\ Goto(r, "done")
    /\ route' = [route EXCEPT ![r] = NoRoute]
    /\ UNCHANGED <<key, reply, gone, exists, logs, healthVars>> /\ Observe

-----------------------------------------------------------------------------
(* The rest of the world                                                   *)

ClientLeaves(r) ==
    /\ pc[r] \notin {"new", "done"} /\ r \notin gone
    /\ gone' = gone \cup {r}
    /\ UNCHANGED <<pc, route, key, reply>> /\ Private

(* KeyStore.Delete: the key, its health and its log rows.                  *)
DeleteKey(k) ==
    /\ k \in exists
    /\ exists' = exists \ {k}
    /\ logs' = [r \in Requests |-> IF key[r] = k THEN "none" ELSE logs[r]]
    /\ H!DeleteRow(k)
    /\ UNCHANGED <<inflight, requestVars>> /\ Observe

(* MarkProbeSuccess and MarkProbeFailure of the probes, at start and for   *)
(* an administrator, who may leave; the Ensure of the admin handlers.      *)
ProbeMark(p) ==
    /\ \/ \E k \in Keys, o \in H!Outcomes : H!MayReport(k, o) /\ H!MarkBegin(p, k, o)
       \/ H!MarkReset(p) \/ H!MarkRecheck(p) \/ H!MarkRead(p) \/ H!MarkWrite(p)
       \/ H!MarkAbort(p) \/ \E k \in Keys : H!Ensure(k)
    /\ UNCHANGED <<exists, inflight, requestVars, logs>> /\ Observe

(* The process stops and starts again: open requests are lost with the     *)
(* in-flight counters, the tables stay.                                    *)
Restart ==
    /\ pc' = [r \in Requests |-> IF At(r, "new") THEN "new" ELSE "done"]
    /\ gone' = gone \cup {r \in Requests : pc[r] \notin {"new", "done"}}
    /\ route' = [r \in Requests |-> NoRoute]
    /\ inflight' = Zero
    /\ mark' = [c \in Requests \cup Probers |-> H!NoCall]
    /\ UNCHANGED <<exists, key, reply, logs, keyState, now, recorded>> /\ Observe

Tick == H!Tick /\ UNCHANGED <<exists, inflight, requestVars, logs>> /\ Observe

-----------------------------------------------------------------------------
Routing(r) ==
    \/ EnsureCandidate(r) \/ QueryCandidates(r) \/ ReadClock(r) \/ ReadInflight(r)
    \/ Select(r) \/ NoHealthyKeys(r) \/ GetKey(r) \/ RoutingFails(r) \/ Enter(r)

Marking(r) == Mark(r) \/ MarkGoesOn(r)

Step(r) == Routing(r) \/ UpstreamFails(r) \/ Log(r) \/ Marking(r) \/ Answer(r) \/ Leave(r)

(* What clients and upstreams do is up to them.                            *)
Outside(r) ==
    \/ \E s \in BOOLEAN, ids \in SUBSET Keys : Arrive(r, s, ids)
    \/ NoKeyForModel(r) \/ StreamStarts(r) \/ UpstreamSucceeds(r) \/ ClientLeaves(r)

World ==
    \/ \E k \in Keys : DeleteKey(k)
    \/ \E p \in Probers : ProbeMark(p)
    \/ Restart
    \/ Tick

Next ==
    \/ \E r \in Requests : Step(r)
    \/ \E r \in Requests : Outside(r)
    \/ World

Spec == Init /\ [][Next]_gatewayVars

-----------------------------------------------------------------------------
(* The part of the type invariant that the in-flight counters rest on: a   *)
(* request that is past its selection has a key.                           *)
SlotTypeOK ==
    /\ inflight \in [Keys -> Nat]
    /\ pc \in [Requests -> Pcs]
    /\ key \in [Requests -> Keys \cup {H!NoKey}]
    /\ \A r \in Requests : pc[r] \in HoldingPcs \cup {"get", "enter"} => key[r] \in Keys

(* Every variable has its type; a request that marks has a Mark call open. *)
TypeOK ==
    /\ SlotTypeOK
    /\ exists \subseteq Keys
    /\ route \in [Requests -> Route]
    /\ reply \in [Requests -> Reply]
    /\ gone \subseteq Requests
    /\ logs \in [Requests -> {"none", "ok", "error"}]
    /\ due \in [Requests -> [Keys -> Nat]] /\ born \in [Requests -> SUBSET Keys]
    /\ H!TypeOK
    /\ \A r \in Requests : At(r, "marking") <=> mark[r].pc # "idle"

(* The counter the selector balances by is exactly the number of requests  *)
(* in flight on the key: whatever fails, leaves or crashes, no slot leaks  *)
(* and none is given back twice.                                           *)
InflightExact == \A k \in Keys : inflight[k] = Cardinality(Holding(k))

(* A request never goes to a key before the end of a cooldown that has run *)
(* ever since the request arrived: somewhere on its way the key was free,  *)
(* or had a cooldown that is over by now.                                  *)
CooldownRespected == \A r \in Requests : At(r, "enter") => due[r][key[r]] = 0

(* Nor to a key that was deleted before the request arrived, however stale *)
(* the catalog is.                                                         *)
DeletedNeverUsed ==
    \A r \in Requests : At(r, "enter") => key[r] \in born[r]

(* A log row tells how its request ended, and a request that ended with    *)
(* its client there and its key not deleted has one.                       *)
LogFaithful ==
    \A r \in Requests :
        /\ logs[r] # "none" => logs[r] = reply[r].outcome
        /\ /\ pc[r] \in {"mark", "marking", "answer", "leave", "done"}
           /\ reply[r].outcome # "none" /\ r \notin gone /\ key[r] \in exists
           => logs[r] # "none"

(* A failure is recorded only for a key whose upstream did fail a request  *)
(* that its client still waits for, or for a probe: clients that leave     *)
(* cool no key.                                                            *)
OnlyVerdictsCool ==
    [][\A k \in Keys : H!RecordsFailure(k) =>
          \/ \E p \in Probers : mark[p].pc = "read" /\ mark[p].key = k
          \/ \E r \in Requests : /\ mark[r].pc = "read" /\ key[r] = k
                                 /\ reply[r].outcome = "error" /\ r \notin gone]_gatewayVars

(* "Timeout/5xx: retry another eligible key" (design, failure handling):   *)
(* the client gets an error only if no other candidate was eligible.       *)
RetriesElsewhere ==
    \A r \in Requests :
        At(r, "leave") /\ reply[r].answer = "error" /\ r \notin gone =>
            route[r].ids \ route[r].cooling = {key[r]}

(* "Each completed request should persist" (design, usage tracking): a     *)
(* stream whose client has it to the end, [DONE] included, has its log row *)
(* when the handler returns, unless its key was deleted.                   *)
CompletedIsLogged ==
    \A r \in Requests :
        At(r, "leave") /\ reply[r].stream /\ reply[r].answer = "ok" /\ key[r] \in exists
            => logs[r] = "ok"
=============================================================================
