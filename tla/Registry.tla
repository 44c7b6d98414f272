------------------------------ MODULE Registry ------------------------------
(***************************************************************************)
(* The upstream keys of the gateway, the models probed for them and the    *)
(* catalog that requests are routed by: tables upstream_keys, key_models   *)
(* and key_state (store/), the in-memory catalog (catalog/), the probe     *)
(* (probe/) and the admin handlers for keys (app/handlers_admin.go).       *)
(*                                                                         *)
(* A handler is a sequence of statements and of one call to the provider;  *)
(* job[p] is where goroutine p stands in one.  Statements and the swap of  *)
(* the catalog are atomic, everything in between interleaves.  The client  *)
(* of an impatient process may go away, which makes every later statement  *)
(* of its handler fail (r.Context()); handlers ignore most such errors.    *)
(***************************************************************************)
EXTENDS Integers, FiniteSets

CONSTANTS
    MaxId,        \* bound: ids handed out by AUTOINCREMENT
    Models,       \* names of models
    Creds,        \* what a key is used with: provider, base URL and API key
    Same,         \* a field that the body of a PUT leaves out
    NoCred,       \* the credential of a key that does not exist
    Offers,       \* external: Offers[c] are the models provider lists for c
    Posts,        \* bodies of POST: records [enabled, cred]
    Puts,         \* bodies of PUT: patches, see Patch
    Procs,        \* goroutines that serve admin requests
    Impatient,    \* those of Procs whose client may go away
    Startup,      \* the goroutine app.Run starts, ProbeAll
    MaxBoots,     \* bound: starts of the process
    Base, Cap, MaxNow, MaxFailures

Ids     == 1 .. MaxId
Workers == Procs \cup {Startup}

ASSUME RegistryAssumption ==
    /\ MaxId \in Nat \ {0} /\ MaxBoots \in Nat \ {0}
    /\ Offers \in [Creds -> SUBSET Models]
    /\ Posts \subseteq [enabled : BOOLEAN, cred : Creds]
    /\ Puts \subseteq [enabled : BOOLEAN \cup {Same}, cred : Creds \cup {Same}]
    /\ NoCred \notin Creds /\ Startup \notin Procs /\ Impatient \subseteq Procs

ASSUME HealthAssumption ==
    Base \in Nat \ {0} /\ Cap \in Nat \ {0} /\ MaxNow \in Nat /\ MaxFailures \in Nat

VARIABLES
    keys,         \* keys[k]: the row of k in upstream_keys, or AbsentKey
    lastId,       \* the largest id ever inserted (sqlite_sequence)
    keyModels,    \* keyModels[k]: the rows of k in key_models
    catalog,      \* catalog[m]: keysByModel, the ids the gateway may use for m
    job,          \* job[p]: the handler that p runs
    boots,        \* starts of the process so far
    held,         \* history: the credentials key k has had
    keyState, mark, now, recorded

H == INSTANCE KeyHealth WITH Keys <- Ids, Deletable <- Ids, Callers <- Workers

healthVars   == <<keyState, mark, now, recorded>>
storeVars    == <<keys, lastId, keyModels, held>>
registryVars == <<keys, lastId, keyModels, catalog, job, boots, held,
                  keyState, mark, now, recorded>>

-----------------------------------------------------------------------------
(* Rows and jobs *)

Key       == [exists : BOOLEAN, enabled : BOOLEAN, cred : Creds \cup {NoCred}]
AbsentKey == [exists |-> FALSE, enabled |-> FALSE, cred |-> NoCred]
Row(e, c) == [exists |-> TRUE, enabled |-> e, cred |-> c]

Exists(k)  == keys[k].exists
Enabled(k) == keys[k].enabled

(* A PUT names the fields that it changes; Same is a field left out.       *)
Patch         == [enabled : BOOLEAN \cup {Same}, cred : Creds \cup {Same}]
NoPatch       == [enabled |-> Same, cred |-> Same]
Merge(row, q) == Row(IF q.enabled = Same THEN row.enabled ELSE q.enabled,
                     IF q.cred = Same THEN row.cred ELSE q.cred)

Pcs == {"idle", "write", "reread", "ensure", "fetch", "list", "replace", "mark",
        "marking", "failing", "rkeys", "rmodels", "swap", "report", "state",
        "list_enabled", "next", "with_models", "states"}
Ops == {"none", "create", "update", "delete", "probe", "list", "startup"}
Job == [op : Ops, pc : Pcs, key : Ids \cup {H!NoKey}, patch : Patch,
        row : Key,                       \* the copy of the key's row in use
        found : SUBSET Models,           \* what the provider listed
        view : SUBSET Ids,               \* the enabled keys Rebuild has read
        next : [Models -> SUBSET Ids],   \* the catalog Rebuild will swap in
        todo : [Ids -> Key]]             \* the keys a loop has still to visit

NoModels == [m \in Models |-> {}]
NoTodo   == [k \in Ids |-> AbsentKey]
NoJob    == [op |-> "none", pc |-> "idle", key |-> H!NoKey, patch |-> NoPatch,
             row |-> AbsentKey, found |-> {}, view |-> {}, next |-> NoModels,
             todo |-> NoTodo]

At(p, pc)   == job[p].pc = pc
Goto(p, pc) == job' = [job EXCEPT ![p].pc = pc]
Finish(p)   == job' = [job EXCEPT ![p] = NoJob]

(* What Rebuild derives from the enabled keys and the model rows it read.  *)
Derive(enabled, models) == [m \in Models |-> {k \in enabled : m \in models[k]}]

EnabledKeys == {k \in Ids : Enabled(k)}
Current     == Derive(EnabledKeys, keyModels)

Least(S) == CHOOSE k \in S : \A l \in S : k <= l

(* The rows of the keys in S, and the keys whose turn is still to come.    *)
Listed(S) == [k \in Ids |-> IF k \in S THEN keys[k] ELSE AbsentKey]
Left(p)   == {k \in Ids : job[p].todo[k].exists}

(* app.Run starts ProbeAll in the background and serves at once.           *)
BootJobs ==
    [p \in Workers |-> IF p = Startup
                       THEN [NoJob EXCEPT !.op = "startup", !.pc = "list_enabled"]
                       ELSE NoJob]

-----------------------------------------------------------------------------
Init ==
    /\ keys = NoTodo
    /\ lastId = 0
    /\ keyModels = [k \in Ids |-> {}]
    /\ catalog = NoModels
    /\ job = BootJobs
    /\ boots = 1
    /\ held = [k \in Ids |-> {}]
    /\ H!Init

-----------------------------------------------------------------------------
(* handleCreateKey *)

(* Bug: without AUTOINCREMENT SQLite hands out a deleted id again.         *)
LowestFreeId == Least({k \in Ids : ~Exists(k)})

(* id integer primary key autoincrement                                    *)
FreshId == lastId + 1

(* The insert; the select that reads the new row back is Reread.           *)
Create(p, enabled, cred) ==
    LET k == FreshId IN
    /\ At(p, "idle") /\ lastId < MaxId
    /\ keys' = [keys EXCEPT ![k] = Row(enabled, cred)]
    /\ lastId' = lastId + 1
    /\ held' = [held EXCEPT ![k] = {cred}]
    /\ job' = [job EXCEPT ![p] = [NoJob EXCEPT !.op = "create", !.key = k,
                                               !.pc = "reread"]]
    /\ UNCHANGED <<keyModels, catalog, boots, healthVars>>

(* stateStore.Ensure.  A created key is probed whether it is enabled or    *)
(* not, an updated one only if the row read back says that it is enabled.  *)
EnsureState(p) ==
    /\ At(p, "ensure")
    /\ H!Ensure(job[p].key)
    /\ Goto(p, IF job[p].op = "create" \/ job[p].row.enabled THEN "fetch" ELSE "rkeys")
    /\ UNCHANGED <<storeVars, catalog, boots>>

-----------------------------------------------------------------------------
(* handleUpdateKey: the row is read and merged, written back in full and   *)
(* read again.  A key that is not there, or no more, ends the handler.     *)

UpdateRead(p, k, q) ==
    /\ At(p, "idle") /\ Exists(k)
    /\ job' = [job EXCEPT ![p] = [NoJob EXCEPT !.op = "update", !.key = k, !.patch = q,
                                               !.pc = "write", !.row = Merge(keys[k], q)]]
    /\ UNCHANGED <<storeVars, catalog, boots, healthVars>>

(* Bug: a field that the body leaves out is written as its zero value.     *)
UpdateWriteZero(p) ==
    LET k   == job[p].key
        row == Row(job[p].patch.enabled = TRUE, job[p].row.cred)
    IN
    /\ At(p, "write")
    /\ IF Exists(k)
       THEN /\ keys' = [keys EXCEPT ![k] = row]
            /\ held' = [held EXCEPT ![k] = @ \cup {row.cred}]
            /\ Goto(p, "reread")
       ELSE Finish(p) /\ UNCHANGED <<keys, held>>
    /\ UNCHANGED <<lastId, keyModels, catalog, boots, healthVars>>

UpdateWrite(p) ==
    LET k == job[p].key IN
    /\ At(p, "write")
    /\ IF Exists(k)
       THEN /\ keys' = [keys EXCEPT ![k] = job[p].row]
            /\ held' = [held EXCEPT ![k] = @ \cup {job[p].row.cred}]
            /\ Goto(p, "reread")
       ELSE Finish(p) /\ UNCHANGED <<keys, held>>
    /\ UNCHANGED <<lastId, keyModels, catalog, boots, healthVars>>

(* KeyStore.Create and Update end with a Get of the row they wrote.        *)
Reread(p) ==
    LET k == job[p].key IN
    /\ At(p, "reread")
    /\ IF Exists(k)
       THEN job' = [job EXCEPT ![p].row = keys[k], ![p].patch = NoPatch,
                               ![p].pc = "ensure"]
       ELSE Finish(p)
    /\ UNCHANGED <<storeVars, catalog, boots, healthVars>>

-----------------------------------------------------------------------------
(* handleDeleteKey: one transaction over all tables, then a rebuild.       *)

(* Bug: the transaction leaves the health row behind.                      *)
DeleteKeepsState(p, k) ==
    /\ At(p, "idle") /\ Exists(k)
    /\ keys' = [keys EXCEPT ![k] = AbsentKey]
    /\ keyModels' = [keyModels EXCEPT ![k] = {}]
    /\ job' = [job EXCEPT ![p] = [NoJob EXCEPT !.op = "delete", !.key = k, !.pc = "rkeys"]]
    /\ UNCHANGED <<lastId, held, catalog, boots, healthVars>>

Delete(p, k) ==
    /\ At(p, "idle") /\ Exists(k)
    /\ keys' = [keys EXCEPT ![k] = AbsentKey]
    /\ keyModels' = [keyModels EXCEPT ![k] = {}]
    /\ H!DeleteRow(k)
    /\ job' = [job EXCEPT ![p] = [NoJob EXCEPT !.op = "delete", !.key = k, !.pc = "rkeys"]]
    /\ UNCHANGED <<lastId, held, catalog, boots>>

-----------------------------------------------------------------------------
(* Service.ProbeKeyByID and ProbeKey, for the handlers of create, update   *)
(* and probe and for ProbeAll.                                             *)

(* handleProbeKey                                                          *)
Probe(p, k) ==
    /\ At(p, "idle") /\ k <= lastId
    /\ job' = [job EXCEPT ![p] = [NoJob EXCEPT !.op = "probe", !.key = k, !.pc = "fetch"]]
    /\ UNCHANGED <<storeVars, catalog, boots, healthVars>>

(* Where the caller goes on.  create only answers, update reports the      *)
(* state whatever the probe said, probe only if it succeeded.              *)
AfterProbe(p, ok) ==
    IF \/ job[p].op = "create" \/ job[p].op = "delete" \/ (job[p].op = "probe" /\ ~ok)
    THEN Finish(p)
    ELSE job' = [job EXCEPT ![p] =
           [NoJob EXCEPT !.op = job[p].op, !.key = job[p].key, !.todo = job[p].todo,
                         !.pc = CASE job[p].op = "startup" -> "next"
                                  [] job[p].op = "probe"   -> "report"
                                  [] job[p].op = "update"  -> "state"]]

Fetch(p) ==
    LET k == job[p].key IN
    /\ At(p, "fetch")
    /\ IF Exists(k)
       THEN job' = [job EXCEPT ![p].row = keys[k], ![p].pc = "list"]
       ELSE AfterProbe(p, FALSE)
    /\ UNCHANGED <<storeVars, catalog, boots, healthVars>>

(* The provider answers the list of models ...                             *)
ListModels(p) ==
    /\ At(p, "list")
    /\ job' = [job EXCEPT ![p].found = Offers[job[p].row.cred],
                          ![p].row = AbsentKey, ![p].pc = "replace"]
    /\ UNCHANGED <<storeVars, catalog, boots, healthVars>>

(* Bug: the error is returned and not recorded.                            *)
ListFailsUnrecorded(p) ==
    /\ At(p, "list")
    /\ H!MayReport(job[p].key, "failure")
    /\ AfterProbe(p, FALSE)
    /\ UNCHANGED <<storeVars, catalog, boots, healthVars>>

(* ... or an error, which MarkProbeFailure records.                        *)
ListFails(p) ==
    /\ At(p, "list")
    /\ H!MayReport(job[p].key, "failure")
    /\ H!MarkBegin(p, job[p].key, "failure")
    /\ Goto(p, "failing")
    /\ UNCHANGED <<storeVars, catalog, boots>>

ProbeFailing(p) ==
    /\ At(p, "failing")
    /\ H!MarkRecheck(p) \/ H!MarkRead(p) \/ H!MarkWrite(p)
    /\ IF mark'[p] = H!NoCall THEN AfterProbe(p, FALSE) ELSE UNCHANGED job
    /\ UNCHANGED <<storeVars, catalog, boots>>

(* ReplaceForKey: one transaction, which asks nothing about the key.       *)
ReplaceForKey(p) ==
    /\ At(p, "replace")
    /\ keyModels' = [keyModels EXCEPT ![job[p].key] = job[p].found]
    /\ job' = [job EXCEPT ![p].found = {}, ![p].pc = "mark"]
    /\ UNCHANGED <<keys, lastId, held, catalog, boots, healthVars>>

(* Bug: the call is begun and not waited for.                              *)
MarkProbeSuccessAsync(p) ==
    /\ At(p, "mark") /\ H!MarkBegin(p, job[p].key, "success") /\ Goto(p, "rkeys")
    /\ UNCHANGED <<storeVars, catalog, boots>>

MarkProbeSuccess(p) ==
    /\ \/ At(p, "mark") /\ H!MarkBegin(p, job[p].key, "success") /\ Goto(p, "marking")
       \/ At(p, "marking") /\ H!MarkReset(p) /\ Goto(p, "rkeys")
    /\ UNCHANGED <<storeVars, catalog, boots>>

-----------------------------------------------------------------------------
(* Catalog.Rebuild: two selects, then the swap under the lock.             *)

ReadKeys(p) ==
    /\ At(p, "rkeys")
    /\ job' = [job EXCEPT ![p].view = EnabledKeys, ![p].pc = "rmodels"]
    /\ UNCHANGED <<storeVars, catalog, boots, healthVars>>

ReadModels(p) ==
    /\ At(p, "rmodels")
    /\ job' = [job EXCEPT ![p].next = Derive(job[p].view, keyModels), ![p].view = {},
                          ![p].pc = "swap"]
    /\ UNCHANGED <<storeVars, catalog, boots, healthVars>>

(* Bug: the new lists are added to the old ones.                           *)
SwapMerges(p) ==
    /\ At(p, "swap")
    /\ catalog' = [m \in Models |-> catalog[m] \cup job[p].next[m]]
    /\ AfterProbe(p, TRUE)
    /\ UNCHANGED <<storeVars, boots, healthVars>>

Swap(p) ==
    /\ At(p, "swap")
    /\ catalog' = job[p].next
    /\ AfterProbe(p, TRUE)
    /\ UNCHANGED <<storeVars, boots, healthVars>>

-----------------------------------------------------------------------------
(* The end of handleProbeKey (the key must still be there) and of          *)
(* handleUpdateKey: stateStore.Get, which ensures a row as it reads it.    *)

Report(p) ==
    /\ At(p, "report")
    /\ IF Exists(job[p].key) THEN Goto(p, "state") ELSE Finish(p)
    /\ UNCHANGED <<storeVars, catalog, boots, healthVars>>

ReportState(p) ==
    /\ At(p, "state")
    /\ H!Ensure(job[p].key)
    /\ Finish(p)
    /\ UNCHANGED <<storeVars, catalog, boots>>

-----------------------------------------------------------------------------
(* handleListKeys, handleHealth (all keys) and handleModels (the enabled   *)
(* ones with models): each key that was listed gets its state, and with it *)
(* a row if it has none.                                                   *)

List(p) ==
    /\ At(p, "idle")
    /\ \E pc \in {"states", "with_models"} :
          job' = [job EXCEPT ![p] = [NoJob EXCEPT !.op = "list", !.pc = pc,
                                        !.todo = Listed({k \in Ids : Exists(k)})]]
    /\ UNCHANGED <<storeVars, catalog, boots, healthVars>>

KeepWithModels(p) ==
    /\ At(p, "with_models")
    /\ job' = [job EXCEPT ![p].pc = "states",
                 ![p].todo = [k \in Ids |-> IF @[k].enabled /\ keyModels[k] # {} THEN @[k]
                                            ELSE AbsentKey]]
    /\ UNCHANGED <<storeVars, catalog, boots, healthVars>>

ListState(p) ==
    LET k == Least(Left(p)) IN
    /\ At(p, "states")
    /\ IF Left(p) = {} THEN Finish(p) /\ UNCHANGED healthVars
       ELSE H!Ensure(k) /\ job' = [job EXCEPT ![p].todo[k] = AbsentKey]
    /\ UNCHANGED <<storeVars, catalog, boots>>

-----------------------------------------------------------------------------
(* ProbeAll: the enabled keys as they were listed, one after the other.    *)

ListEnabled(p) ==
    /\ At(p, "list_enabled")
    /\ job' = [job EXCEPT ![p].todo = Listed(EnabledKeys), ![p].pc = "next"]
    /\ UNCHANGED <<storeVars, catalog, boots, healthVars>>

(* Bug: the loop never advances.                                           *)
ProbeNextAgain(p) ==
    LET k == Least(Left(p)) IN
    /\ At(p, "next")
    /\ IF Left(p) = {} THEN Finish(p)
       ELSE job' = [job EXCEPT ![p].key = k, ![p].row = job[p].todo[k], ![p].pc = "list"]
    /\ UNCHANGED <<storeVars, catalog, boots, healthVars>>

ProbeNext(p) ==
    LET k == Least(Left(p)) IN
    /\ At(p, "next")
    /\ IF Left(p) = {} THEN Finish(p)
       ELSE job' = [job EXCEPT ![p].key = k, ![p].row = job[p].todo[k],
                               ![p].todo[k] = AbsentKey, ![p].pc = "list"]
    /\ UNCHANGED <<storeVars, catalog, boots, healthVars>>

-----------------------------------------------------------------------------
(* The client leaves: the statement that comes next fails, what was done   *)
(* stays.  The swap of the catalog looks at no context.                    *)
Hangup(p) ==
    /\ p \in Impatient /\ job[p].pc \notin {"idle", "swap"}
    /\ Finish(p)
    /\ mark' = [mark EXCEPT ![p] = H!NoCall]
    /\ UNCHANGED <<storeVars, catalog, boots, keyState, now, recorded>>

(* The process stops at any moment and starts again: app.New rebuilds the  *)
(* catalog from the database before Run serves anything.                   *)
Restart ==
    /\ boots < MaxBoots
    /\ boots' = boots + 1
    /\ catalog' = Current
    /\ job' = BootJobs
    /\ mark' = [p \in Workers |-> H!NoCall]
    /\ UNCHANGED <<storeVars, keyState, now, recorded>>

Tick == H!Tick /\ UNCHANGED <<storeVars, catalog, job, boots>>

-----------------------------------------------------------------------------
Begin(p) ==
    \/ \E body \in Posts : Create(p, body.enabled, body.cred)
    \/ \E k \in Ids, q \in Puts : UpdateRead(p, k, q)
    \/ \E k \in Ids : Delete(p, k)
    \/ \E k \in Ids : Probe(p, k)
    \/ List(p)

Step(p) ==
    \/ EnsureState(p)   \/ UpdateWrite(p)  \/ Reread(p)
    \/ Fetch(p)         \/ ListModels(p)   \/ ListFails(p)
    \/ ProbeFailing(p)  \/ ReplaceForKey(p) \/ MarkProbeSuccess(p)
    \/ ReadKeys(p)      \/ ReadModels(p)   \/ Swap(p)
    \/ Report(p)        \/ ReportState(p)
    \/ KeepWithModels(p) \/ ListState(p)
    \/ ListEnabled(p)   \/ ProbeNext(p)

Proceed ==
    \/ \E p \in Workers : Step(p)
    \/ \E p \in Procs : Hangup(p)
    \/ Restart
    \/ Tick

Next == (\E p \in Procs : Begin(p)) \/ Proceed

Spec     == Init /\ [][Next]_registryVars
FairSpec == Spec /\ \A p \in Workers : WF_registryVars(Step(p))

Quiet == \A p \in Workers : job[p].pc = "idle"

(* One administrator, who waits for the probes at start and for every      *)
(* answer: a handler begins only when no other runs.                       *)
SerialNext == (\E p \in Procs : Quiet /\ Begin(p)) \/ Proceed
SerialSpec == Init /\ [][SerialNext]_registryVars

-----------------------------------------------------------------------------
(* The call that a job waits for is the one it made.                       *)
CallsMatch ==
    \A p \in Workers :
        /\ job[p].pc = "marking" => mark[p].pc = "ensured" /\ mark[p].outcome = "success"
        /\ job[p].pc = "failing" => \/ mark[p].pc \in {"again", "read"}
                                    \/ mark[p].pc = "ensured" /\ mark[p].outcome = "failure"

(* Every variable has its type; a job that waits for the update of a       *)
(* MarkProbe call is one whose call is open, and the one it made.          *)
TypeOK ==
    /\ keys \in [Ids -> Key]
    /\ lastId \in 0 .. MaxId
    /\ keyModels \in [Ids -> SUBSET Models]
    /\ catalog \in [Models -> SUBSET Ids]
    /\ job \in [Workers -> Job]
    /\ boots \in 1 .. MaxBoots
    /\ held \in [Ids -> SUBSET Creds]
    /\ H!TypeOK
    /\ \A p \in Workers : job[p].pc \in {"marking", "failing"} <=> mark[p].pc # "idle"
    /\ CallsMatch

(* The catalog lists a key for a model only if a credential that this very *)
(* key has had offers the model: a probe that outlives its key, or a row   *)
(* it leaves behind, never lends models to another key.                    *)
CatalogOwnership ==
    \A m \in Models : \A k \in catalog[m] : \E c \in held[k] : m \in Offers[c]

(* "Exclude disabled or cooling-down keys" (design, key selection): when   *)
(* no handler runs, the catalog lists only keys that exist, are enabled    *)
(* and have the model.  handleUpdateKey and handleDeleteKey rebuild it for *)
(* that, and ignore the error if they cannot.                              *)
QuietCatalogSound == Quiet => \A m \in Models : catalog[m] \subseteq Current[m]

(* Of the key an administrator disabled alone: when no handler runs, it is *)
(* not listed.                                                             *)
QuietListsNoDisabled ==
    Quiet => \A m \in Models : \A k \in catalog[m] : Exists(k) => Enabled(k)

(* And it lists all of these, so a key that can serve is found: a key it   *)
(* misses is one whose probe failed, and that failure was recorded.        *)
(* handleCreateKey, handleUpdateKey, handleProbeKey and ProbeAll leave the *)
(* catalog alone only where the probe returns its error before the rebuild. *)
QuietCatalogComplete ==
    Quiet => \A m \in Models : \A k \in Current[m] \ catalog[m] : recorded[k] > 0

(* "Health: see healthy/unhealthy key counts" (README): the rows that      *)
(* Overview counts are rows of keys that exist.                            *)
NoOrphanedHealth == Quiet => \A k \in Ids : H!HasRow(k) => Exists(k)

(* "expected other fields unchanged" (test of the partial update): a PUT   *)
(* changes the fields its body names and no other.                         *)
UpdateKeepsOthers ==
    [][\A p \in Workers :
          LET k == job[p].key
              q == job[p].patch
          IN  UpdateWrite(p) /\ Exists(k) =>
                  /\ q.enabled = Same => keys'[k].enabled = keys[k].enabled
                  /\ q.cred = Same => keys'[k].cred = keys[k].cred]_registryVars

(* All of it, with any number of handlers that overlap, hang up or are cut *)
(* short, is what Gateway takes the rest of the world to do: to the gateway *)
(* an id not handed out yet is one that may be deleted some day.           *)
Unseen(x) == [r \in {} |-> x]
G == INSTANCE Gateway WITH
         Keys <- Ids, Requests <- {}, Probers <- Workers,
         exists <- {k \in Ids : k > lastId \/ Exists(k)},
         inflight <- [k \in Ids |-> 0], gone <- {},
         pc <- Unseen(0), route <- Unseen(0), key <- Unseen(0), reply <- Unseen(0),
         logs <- Unseen(0), due <- Unseen(0), born <- Unseen(0)
IsTheWorldOfGateway == G!Spec

(* Where a handler stands, by the statements it still has before it at     *)
(* most until it ends or looks at the next key of its loop, and where a    *)
(* report of a failure stands.  To a loop over all keys, all may be left.  *)
Rank(pc) ==
    [idle |-> 0, next |-> 1, states |-> 1, state |-> 1, report |-> 2, with_models |-> 2,
     swap |-> 3, rmodels |-> 4, rkeys |-> 5, failing |-> 5, marking |-> 6, mark |-> 7,
     replace |-> 8, list |-> 9, fetch |-> 10, ensure |-> 11, reread |-> 12, write |-> 13,
     list_enabled |-> 16 * MaxId + 2][pc]
CallRank(pc) == [idle |-> 0, read |-> 1, again |-> 2, ensured |-> 3][pc]

(* No round of a loop takes as many as 16 steps.                           *)
Work(p) == 16 * Cardinality(Left(p)) + Rank(job[p].pc)
             + (IF job[p].pc = "failing" THEN CallRank(mark[p].pc) ELSE 0)

(* A step of a handler leaves it less to do, whatever it finds, and no     *)
(* step of another changes what it has to do; only a new handler and a     *)
(* restart give it more.                                                   *)
HandlersAdvance ==
    [][\A p \in Workers :
          /\ Step(p) => Work(p)' < Work(p)
          /\ ~Step(p) => Work(p)' = Work(p) \/ job[p].pc = "idle" \/ job'[p].pc = "idle"
                           \/ boots' # boots]_registryVars

(* Every handler comes to its end, whatever the others do to its key.      *)
JobsEnd == \A p \in Workers : job[p].pc # "idle" ~> job[p].pc = "idle"
=============================================================================
