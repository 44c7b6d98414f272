----------------------------- MODULE Downstream -----------------------------
(***************************************************************************)
(* The keys that clients call the gateway with: table downstream_keys      *)
(* (store/downstream_keys.go), the admin handlers for them, the check of   *)
(* the bearer token (requireGatewayAccess) and the bookkeeping of tokens   *)
(* in LogStore.Insert.                                                     *)
(*                                                                         *)
(* job[a] is where admin request a stands between two of its statements,   *)
(* pc[r] where client request r does: a request is served for as long as   *)
(* its upstream takes, and meanwhile its key may be changed, given another *)
(* token or deleted.  What happens between the check of the token and the  *)
(* log row is module Gateway's.                                            *)
(***************************************************************************)
EXTENDS Usage, FiniteSets

CONSTANTS
    MaxId,        \* bound: ids handed out by AUTOINCREMENT
    Tokens,       \* tokens that GenerateDownstreamToken may return, once each
    EnvToken,     \* ATOMHUB_GATEWAY_TOKEN
    NoToken,
    Admins,       \* goroutines that serve admin requests
    Requests,     \* client requests, each of which arrives at most once
    Reports       \* external: token counts that upstreams report

Ids   == 1 .. MaxId
NoKey == 0

ASSUME DownstreamAssumption ==
    /\ MaxId \in Nat
    /\ NoToken \notin Tokens /\ EnvToken \notin Tokens \cup {NoToken}
    /\ IsFiniteSet(Requests)
    /\ Reports \subseteq Report

VARIABLES
    keys,         \* keys[k]: the row of k, or AbsentKey
    usage,        \* usage[k]: the counts in that row
    lastId,       \* the largest id ever inserted (sqlite_sequence)
    job,          \* job[a]: the handler that a runs
    pc, as,       \* where r stands, and the downstream key in its context
    logs,         \* logs[r]: the row of r in request_logs, or NoLog
    owner,        \* history: owner[t] is the key t was generated for
    dead,         \* history: the tokens that were replaced, or whose key was deleted
    bearer,       \* history: bearer[r] is the token r was admitted with
    reported      \* history: reported[r] is what the upstream of r reported

adminVars      == <<keys, lastId, job, owner, dead>>
requestVars    == <<pc, as, logs, bearer, reported>>
downstreamVars == <<keys, usage, lastId, job, pc, as, logs, owner, dead, bearer, reported>>

-----------------------------------------------------------------------------
Key       == [exists : BOOLEAN, enabled : BOOLEAN,
              token : Tokens \cup {NoToken},      \* token_hash
              sealed : Tokens \cup {NoToken}]     \* encrypted_token
AbsentKey == [exists |-> FALSE, enabled |-> FALSE, token |-> NoToken, sealed |-> NoToken]
NewKey(e, t) == [exists |-> TRUE, enabled |-> e, token |-> t, sealed |-> t]

(* A row from before tokens were also kept encrypted.                      *)
OldKey(t) == [exists |-> TRUE, enabled |-> TRUE, token |-> t, sealed |-> NoToken]

Counts   == [requests : Nat, prompt : Nat, completion : Nat, total : Nat]
NoCounts == [requests |-> 0, prompt |-> 0, completion |-> 0, total |-> 0]
Nothing  == [prompt |-> 0, completion |-> 0, total |-> 0]
Log      == [exists : BOOLEAN, key : Ids \cup {NoKey}, booked : Booked]
NoLog    == [exists |-> FALSE, key |-> NoKey, booked |-> Nothing]
Job      == [pc : {"idle", "update", "replace"}, key : Ids \cup {NoKey}, row : Key]
NoJob    == [pc |-> "idle", key |-> NoKey, row |-> AbsentKey]

Exists(k)    == keys[k].exists
At(a, label) == job[a].pc = label
Finish(a)    == job' = [job EXCEPT ![a] = NoJob]
Start(a, label, k, row) ==
    job' = [job EXCEPT ![a] = [pc |-> label, key |-> k, row |-> row]]

-----------------------------------------------------------------------------
Init ==
    /\ \/ /\ keys = [k \in Ids |-> AbsentKey]
          /\ lastId = 0
          /\ owner = [t \in Tokens |-> NoKey]
       \/ /\ 1 \in Ids
          /\ \E old \in Tokens :
                /\ keys = [k \in Ids |-> IF k = 1 THEN OldKey(old) ELSE AbsentKey]
                /\ owner = [t \in Tokens |-> IF t = old THEN 1 ELSE NoKey]
          /\ lastId = 1
    /\ usage = [k \in Ids |-> NoCounts]
    /\ job = [a \in Admins |-> NoJob]
    /\ pc = [r \in Requests |-> "new"]
    /\ as = [r \in Requests |-> NoKey]
    /\ logs = [r \in Requests |-> NoLog]
    /\ dead = {}
    /\ bearer = [r \in Requests |-> NoToken]
    /\ reported = [r \in Requests |-> Nothing]

-----------------------------------------------------------------------------
(* The admin handlers.  The selects that end them only fill the answer.    *)

Fresh(t) == t \in Tokens /\ owner[t] = NoKey

(* Bug: without AUTOINCREMENT SQLite hands out a deleted id again.         *)
LowestFreeId == CHOOSE k \in Ids : ~Exists(k) /\ \A l \in Ids : ~Exists(l) => k <= l

(* id integer primary key autoincrement                                    *)
FreshId == lastId + 1

Create(enabled, t) ==
    LET k == FreshId IN
    /\ lastId < MaxId /\ Fresh(t)
    /\ keys' = [keys EXCEPT ![k] = NewKey(enabled, t)]
    /\ usage' = [usage EXCEPT ![k] = NoCounts]
    /\ lastId' = lastId + 1
    /\ owner' = [owner EXCEPT ![t] = k]
    /\ UNCHANGED <<job, dead, requestVars>>

(* handleUpdateDownstreamKey reads the row and merges the body, which      *)
(* names enabled or leaves it as it was read ...                           *)
UpdateRead(a, k, enabled) ==
    /\ At(a, "idle") /\ Exists(k)
    /\ Start(a, "update", k, [keys[k] EXCEPT !.enabled = enabled])
    /\ UNCHANGED <<keys, usage, lastId, owner, dead, requestVars>>

(* Bug: the update writes every column back as it was read.                *)
UpdateWriteAll(a) ==
    LET k == job[a].key IN
    /\ At(a, "update")
    /\ keys' = IF Exists(k) THEN [keys EXCEPT ![k] = job[a].row] ELSE keys
    /\ Finish(a)
    /\ UNCHANGED <<usage, lastId, owner, dead, requestVars>>

(* ... and the update sets name and enabled only.                          *)
UpdateWrite(a) ==
    LET k == job[a].key IN
    /\ At(a, "update")
    /\ keys' = IF Exists(k) THEN [keys EXCEPT ![k].enabled = job[a].row.enabled] ELSE keys
    /\ Finish(a)
    /\ UNCHANGED <<usage, lastId, owner, dead, requestVars>>

Delete(k) ==
    /\ Exists(k)
    /\ keys' = [keys EXCEPT ![k] = AbsentKey]
    /\ usage' = [usage EXCEPT ![k] = NoCounts]
    /\ dead' = dead \cup {keys[k].token}
    /\ UNCHANGED <<lastId, job, owner, requestVars>>

(* Regenerate looks for the key and generates a token ...                  *)
RegenerateRead(a, k) ==
    /\ At(a, "idle") /\ Exists(k)
    /\ Start(a, "replace", k, AbsentKey)
    /\ UNCHANGED <<keys, usage, lastId, owner, dead, requestVars>>

(* Bug: the encrypted copy is not replaced.                                *)
RegenerateWriteHash(a, t) ==
    LET k == job[a].key IN
    /\ At(a, "replace") /\ Fresh(t) /\ Exists(k)
    /\ owner' = [owner EXCEPT ![t] = k]
    /\ keys' = [keys EXCEPT ![k].token = t]
    /\ dead' = dead \cup {keys[k].token}
    /\ Finish(a)
    /\ UNCHANGED <<usage, lastId, requestVars>>

(* ... that replaces hash and encrypted token in one update.               *)
RegenerateWrite(a, t) ==
    LET k == job[a].key IN
    /\ At(a, "replace") /\ Fresh(t) /\ Exists(k)
    /\ owner' = [owner EXCEPT ![t] = k]
    /\ keys' = [keys EXCEPT ![k].token = t, ![k].sealed = t]
    /\ dead' = dead \cup {keys[k].token}
    /\ Finish(a)
    /\ UNCHANGED <<usage, lastId, requestVars>>

(* The key is gone by now, or a statement fails as the client leaves.      *)
Abort(a) ==
    /\ ~At(a, "idle") /\ Finish(a)
    /\ UNCHANGED <<keys, usage, lastId, owner, dead, requestVars>>

-----------------------------------------------------------------------------
(* Client requests *)

(* FindByToken: the enabled key with that hash.                            *)
Opens(t) == {k \in Ids : Exists(k) /\ keys[k].enabled /\ keys[k].token = t}

(* requireGatewayAccess: the token of the environment, or that of a key.   *)
Admit(r, t) ==
    /\ pc[r] = "new"
    /\ \/ t = EnvToken /\ UNCHANGED as
       \/ t # EnvToken /\ \E k \in Opens(t) : as' = [as EXCEPT ![r] = k]
    /\ pc' = [pc EXCEPT ![r] = "serving"]
    /\ bearer' = [bearer EXCEPT ![r] = t]
    /\ UNCHANGED <<adminVars, usage, logs, reported>>

Unauthorized(r, t) ==
    /\ pc[r] = "new" /\ t # EnvToken /\ Opens(t) = {}
    /\ pc' = [pc EXCEPT ![r] = "done"]
    /\ UNCHANGED <<adminVars, usage, as, logs, bearer, reported>>

Plus(n, b) == [requests |-> n.requests + 1, prompt |-> n.prompt + b.prompt,
               completion |-> n.completion + b.completion, total |-> n.total + b.total]

(* LogStore.Insert with the normalised counts: the row and the counters of *)
(* the key, if it is still there, in one transaction.                      *)
Insert(r, u) ==
    LET k == as[r] IN
    /\ pc[r] = "serving"
    /\ logs' = [logs EXCEPT ![r] = [exists |-> TRUE, key |-> k, booked |-> Normalize(u)]]
    /\ usage' = IF k = NoKey THEN usage
                ELSE IF ~Exists(k) THEN usage
                ELSE [usage EXCEPT ![k] = Plus(@, Normalize(u))]
    /\ reported' = [reported EXCEPT ![r] = u]
    /\ pc' = [pc EXCEPT ![r] = "logged"]
    /\ UNCHANGED <<adminVars, as, bearer>>

(* The request ends before its upstream is called, or the transaction is   *)
(* rolled back as the client has left.                                     *)
EndUnlogged(r) ==
    /\ pc[r] = "serving"
    /\ pc' = [pc EXCEPT ![r] = "done"]
    /\ UNCHANGED <<adminVars, usage, as, logs, bearer, reported>>

(* KeyStore.Delete removes the log rows of an upstream key, which may be   *)
(* any of them, and leaves the counters alone.                             *)
DeleteLogs(rows) ==
    /\ \E r \in rows : logs[r].exists
    /\ logs' = [r \in Requests |-> IF r \in rows THEN NoLog ELSE logs[r]]
    /\ UNCHANGED <<adminVars, usage, pc, as, bearer, reported>>

(* The process stops: what is in progress is lost, the tables stay.        *)
Restart ==
    /\ job' = [a \in Admins |-> NoJob]
    /\ pc' = [r \in Requests |-> IF pc[r] = "serving" THEN "done" ELSE pc[r]]
    /\ UNCHANGED <<keys, usage, lastId, owner, dead, as, logs, bearer, reported>>

-----------------------------------------------------------------------------
Administer(a) ==
    \/ \E k \in Ids, e \in BOOLEAN : UpdateRead(a, k, e)
    \/ UpdateWrite(a)
    \/ \E k \in Ids : RegenerateRead(a, k)
    \/ \E t \in Tokens : RegenerateWrite(a, t)
    \/ Abort(a)

Serve(r) ==
    \/ \E t \in Tokens \cup {EnvToken} : Admit(r, t)
    \/ \E t \in Tokens : Unauthorized(r, t)
    \/ \E u \in Reports : Insert(r, u)
    \/ EndUnlogged(r)

Next ==
    \/ \E e \in BOOLEAN, t \in Tokens : Create(e, t)
    \/ \E k \in Ids : Delete(k)
    \/ \E a \in Admins : Administer(a)
    \/ \E r \in Requests : Serve(r)
    \/ \E rows \in SUBSET Requests : DeleteLogs(rows)
    \/ Restart

Spec == Init /\ [][Next]_downstreamVars

-----------------------------------------------------------------------------
(* Every variable has its type: the rows as migrate.go declares them, a    *)
(* handler that writes has a key to write.                                 *)
TypeOK ==
    /\ keys \in [Ids -> Key] /\ \A k \in Ids : Exists(k) => keys[k].token \in Tokens
    /\ usage \in [Ids -> Counts]
    /\ lastId \in 0 .. MaxId
    /\ job \in [Admins -> Job]
    /\ \A a \in Admins : job[a].pc # "idle" => job[a].key \in Ids
    /\ pc \in [Requests -> {"new", "serving", "logged", "done"}]
    /\ as \in [Requests -> Ids \cup {NoKey}]
    /\ logs \in [Requests -> Log]
    /\ owner \in [Tokens -> Ids \cup {NoKey}]
    /\ dead \subseteq Tokens
    /\ bearer \in [Requests -> Tokens \cup {EnvToken, NoToken}]
    /\ reported \in [Requests -> Report]

(* A token that was replaced, or whose key was deleted, opens no key ever  *)
(* again: no update that was under way brings it back.                     *)
ReplacedStaysDead == \A k \in Ids : Exists(k) => keys[k].token \notin dead

(* What Reveal decrypts is the token that opens the key, unless the row is *)
(* older than the encrypted column: whoever updates and regenerates.       *)
SealedCurrent == \A k \in Ids : Exists(k) => keys[k].sealed \in {keys[k].token, NoToken}

(* The requests that came with a token once generated for k and are logged.*)
ChargedTo(k) ==
    {r \in Requests : pc[r] = "logged" /\ bearer[r] # EnvToken /\ owner[bearer[r]] = k}

(* The sum of n[r] over S, counted one by one.                             *)
SumOver(S, n) == Cardinality(UNION {{r} \X (1 .. n[r]) : r \in S})

(* The counters of a key are exactly the sums over the requests that came  *)
(* with one of its tokens, though the token was replaced meanwhile: none   *)
(* is lost, none is charged to another key, and deleting log rows or other *)
(* keys changes nothing.                                                   *)
UsageExact ==
    \A k \in Ids : Exists(k) =>
        /\ usage[k].requests = Cardinality(ChargedTo(k))
        /\ usage[k].prompt =
               SumOver(ChargedTo(k), [r \in Requests |-> Normalize(reported[r]).prompt])
        /\ usage[k].completion =
               SumOver(ChargedTo(k), [r \in Requests |-> Normalize(reported[r]).completion])
        /\ usage[k].total =
               SumOver(ChargedTo(k), [r \in Requests |-> Normalize(reported[r]).total])

(* Totals are the sum of their halves in every log row and, in spite of    *)
(* what upstreams report, in every counter.                                *)
TotalsAgree ==
    /\ \A r \in Requests : AddsUp(logs[r].booked)
    /\ \A k \in Ids : AddsUp(usage[k])

(* A log row says what the upstream reported, completed and not contradicted. *)
LogsKeepReports ==
    \A r \in Requests : logs[r].exists => Keeps(logs[r].booked, reported[r])
=============================================================================
