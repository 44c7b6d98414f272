# AtomHub in TLA+

AtomHub is a gateway: clients send OpenAI-style chat requests with a downstream
key, the gateway picks one of several upstream keys that can serve the model,
calls the provider, logs the tokens and keeps a health record of every upstream
key. An administrator manages both kinds of key. It is one Go process over one
SQLite file.

This directory holds TLA+ modules translated from the Go sources, TLC
configurations that check them on small instances, and proofs for all instances
that TLAPS checks. Source paths below are relative to `src/internal/`.

    tlc -workers 2 -config MCGateway_pair.cfg MCGateway.tla
    tlapm GatewayProofs.tla

## 1. Inventory

| Component | State it keeps | Operations | Interacts with | Here |
|---|---|---|---|---|
| key health, `store/state.go` | table `key_state` | Ensure, Get, Candidates, MarkSuccess, MarkFailure, MarkProbeSuccess, MarkProbeFailure | gateway, probe, admin | `KeyHealth` |
| in-flight counters, `store/state.go` | map key id → count, under a mutex | Increment-, DecrementInflight, Inflight | gateway | `Gateway` |
| upstream keys, `store/keys.go` | table `upstream_keys` | Create, Update, Delete, Get, List, ListEnabled | admin, probe, catalog, gateway | `Registry` |
| probed models, `store/models.go` | table `key_models` | ReplaceForKey, ListAll | probe, catalog | `Registry` |
| catalog, `catalog/` | map model → key ids, under an RWMutex | Rebuild, KeysForModel | written by probe and admin, read by the gateway | `Registry` |
| probe, `probe/` | none | ProbeKeyByID, ProbeKey, ProbeAll | providers, all stores, catalog | `Registry` |
| admin handlers for keys, `app/handlers_admin.go` | none | list, create, update, delete, probe | stores, probe, catalog | `Registry` |
| chat handler, `app/handlers_gateway.go` | the request | handleChatCompletions | catalog, health, selector, keys, upstream, logs | `Gateway` |
| selector, `selector/` | none | Select | gateway | `Selector` |
| lifecycle, `app/app.go`, `cmd/atomhub` | none | New, Run, Close | everything | `Server`; `Restart` in `Registry`, `Gateway`, `Downstream` |
| request log, `store/logs.go` | table `request_logs` | Insert, ListRecent | gateway, admin | `Gateway`, `Downstream`, `Store` |
| streaming relay, `app/streaming.go` | the stream, whether it has begun | relay of events, fallback for other providers | gateway, providers, the client | `Relay` |
| usage, `usage/` | none | Normalize, Aggregate | gateway | `Usage` |
| downstream keys, `store/downstream_keys.go`, `auth/downstream.go` | table `downstream_keys` | create, update, reveal, regenerate, delete, bearer check | admin, gateway, logs | `Downstream` |
| admin login, `auth/session.go`, `store/admin.go` | table `admin_users`, signed cookies | login, verify, logout, first boot | admin | `Session`, `Server` |
| statistics, `store/stats.go` | none | TokenStats, Overview | admin | queries of `Store` |
| connection, transactions, `store/db.go` | the one connection, the rows | every statement of the above | all stores | `Store`, `AtomicStore` |
| providers, `providers/` | none | one HTTP call each | probe, gateway | external |
| configuration, schema | environment, schema | Load, Open, Migrate | start | `Server`, `Store`, in part |
| routes, pages | none | | | no |

What is hard here, and the properties that make each part correct:

* **Health.** A report of an outcome is several statements; reports of
  different requests, of probes and deletions interleave between them. Status,
  count and cooldown must agree, a cooldown must be bounded and end unless
  failures keep coming, and no failure may be counted that did not happen.
* **Registry.** Three tables and an in-memory catalog are updated one after the
  other, by handlers that overlap with each other and with the probe at start.
  Clients hang up between two statements, the process restarts. The catalog
  must not list disabled or deleted keys for good, nor lend one key's models to
  another.
* **Gateway.** What routing has read (catalog, rows, clock, counters, key) is
  old by the time it is used. Slots must be given back on each of many exits.
  Only a real failure may cool a key, and the log must say what happened.
* **Downstream keys.** A request is served for minutes with a key that was
  checked at its start, while administrators regenerate, disable or delete it
  with handlers of two statements. A replaced token must stay dead, and what a
  request used must be charged to its key or to nobody.
* **Usage.** Providers leave counts out or contradict themselves; what is booked
  must add up and keep what was reported.
* **Relay.** A stream may end, break off or time out anywhere, and so may its
  client. What the client has read, what is logged, what is booked and what
  becomes of the key must tell the same story, and the request must end.
* **Store and start.** All statements share one connection. A call that kept
  it, or that waited for it while it held it, would stop everything. A call of
  several statements, or a migration, is cut short by a cancelled context, a
  failure or the end of the process.
* **Sessions.** The server keeps no sessions: a cookie cannot be taken back,
  and its whole seconds are compared with a clock that has finer ones.
* **Selector.** A pure loop that must not depend on the order of its input.

`PROJECT.json` lists every hazard with its line and the properties that look
for it.

## 2. Modules

    KeyHealth <--INSTANCE-- Registry         KeyHealthProofs  EXTENDS KeyHealth
        ^                                    RegistryProofs   EXTENDS Registry
        +------INSTANCE---- Gateway          GatewayProofs    EXTENDS Gateway
    Gateway <--INSTANCE-- Registry           (Registry is the world of Gateway)
    Selection <--EXTENDS-- Gateway
    Gateway, Usage <--EXTENDS-- Relay        RelayProofs      EXTENDS Relay, GatewayProofs
    Usage <--EXTENDS-- Downstream            DownstreamProofs EXTENDS Downstream
    AtomicStore <--INSTANCE-- Store          (Store implements AtomicStore)
    Session, Store <--EXTENDS-- Server       ServerProofs     EXTENDS Server
                                             StoreProofs      EXTENDS ServerProofs
    Selector                                 SelectorProofs   EXTENDS Selector, Selection
    MCx EXTENDS x: constants of the small instances

**Atomicity.** Outside `Store`, one SQL statement or one transaction is one
step, and so is one section under a mutex. Everything between two of these
interleaves, and providers answer between steps. That a transaction may be
taken for one step is not assumed: `store/db.go:34` limits the pool to one
connection, `Store` runs every call on it statement by statement, and
`ImplementsAtomicStore` shows that transactions and single writes take effect at
once or not at all. Create and the Mark calls are several statements without a
transaction, and are not atomic: what they may leave half done is part of
`AtomicStore`, and the statements of a Mark call are steps of their own in
`KeyHealth`.

### KeyHealth

`keyState[k]` is the row of key k: status, cooldown_until, consecutive_failures.
`mark[c]` is the call of `Mark...` that caller c has open; `now` is the clock.
One action per statement of such a call:

| Action | Code |
|---|---|
| `Ensure`, and `MarkBegin` at the start of a call | insert ... on conflict do nothing |
| `MarkReset` | the update of MarkSuccess and MarkProbeSuccess |
| `MarkRecheck`, `MarkRead` | Get in markFailure: it ensures, then selects |
| `MarkWrite` | the update of markFailure, with the cooldown from what was read |
| `MarkAbort` | an error return between two statements |
| `DeleteRow`, `Crash`, `Tick` | KeyStore.Delete, the end of the process, the clock |

A failure update stores `t + cooldown`, where t is some time between the read
and the update: the code takes `time.Now()` in between. `last_error` and the
`last_*_at` columns are dropped: no code decides by them.

### Registry

`keys`, `lastId`, `keyModels` and `catalog` are the tables, the AUTOINCREMENT
counter and `keysByModel`. `job[p]` is where goroutine p stands in a handler,
with the row it works on. There is one action for each statement, the swap of
the catalog and the provider's answer. Handlers ignore the errors of most of
their calls, as the code does. `Hangup` is a client that goes away: its handler
fails at its next statement. `Swap` looks at no context, so a hangup just
before it has no effect. `Restart` is a crash followed by `app.New`, which
rebuilds the catalog, and by `Run`, which starts `ProbeAll` as worker `Startup`.

The lists of keys, health and models are handlers too (`List`,
`KeepWithModels`, `ListState`): for every key they show they call Get, which
inserts a health row if there is none.

`Registry` also says what it is to the gateway: `G` is `Gateway` with the
registry's keys and health rows and no request (`Unseen`), and
`IsTheWorldOfGateway` is that every step of the registry is one of those that
`Gateway` takes from its surroundings, or changes nothing it can see. `Gateway`
takes a swapped catalog, a PUT and a listing for such steps that it cannot see,
as its requests are given any keys whatever. `Work(p)` measures how much handler
p still has to do, from its place in the code (`Rank`), in its Mark call
(`CallRank`) and the keys it has left.

A key's name, API key and base URL are one credential `cred`, which decides
what the provider lists (`Offers`). A PUT is a patch of two fields, `enabled`
and `cred`, either of which may be left out.

### Gateway

`pc[r]` walks request r through handleChatCompletions: `ensure`, `query`,
`clock`, `load` are Candidates; `select`, `get`, `enter`; `upstream`,
`streaming`; `log`, `mark`, `marking`, `answer`, `leave`. Its local variables
are `route[r]`, `key[r]` and `reply[r]`; `gone` holds the requests whose
context is cancelled; `logs[r]` is the row in `request_logs`.

The registry may do anything at any time here: `Arrive` takes *any* non-empty
set of ids from the catalog, whatever lag that needs, `DeleteKey` may fall
between any two steps, and the probers mark any key. `Selected`, of module
`Selection`, is what `Selector` is proved to return; it is a relation, so the
proofs need no `CHOOSE`. `due` and `born` are history variables for two properties.

What happens between the slot and the log row is here only that the upstream
succeeds or fails, before or after a stream has begun (`StreamStarts`); an error
before gives a 502, a later one only ends the answer. `Relay` says how.

### Relay

`Relay` refines the two states `upstream` and `streaming` of a request. `link[r]`
is how the provider answers: with the events of a stream (OpenAI) or with a full
answer, of which the relay makes a stream of three events when the client asked
for one. `queue[r]` is what is to be written before the upstream is read again,
`merged[r]` the usage so far; `sent` and `written` are history; `booked[r]` are
the counts of the log row.

| Action | Code |
|---|---|
| `Connect` | the call of streamOpenAI, up to its scanner |
| `ReadChunk`, `ReadEnd` | one data line of the scanner, `[DONE]` or the end of the body |
| `ReadWhole` | streamFromSingleResponse |
| `ReadAnswer` | proxyChatCompletion without a stream |
| `ReadFails` | each error return of these before a write: status, broken body, 60 s, client gone |
| `StartStream`, `Write`, `WriteFails` | sseResponseWriter.WriteData: header, data, and its error |
| `LogUsage` | Normalize and Insert |

A chunk is its usage and whether the relay can decode it (`readable`): one that
it cannot decode is passed on all the same. `Merge` is mergeUsageTokens,
`Parsed` what the proxy functions make of the counts of each provider.

### Selector

The loop of Select, one candidate per step, with `best` and `found` as in the
code.

### Usage and Downstream

`Normalize` is the function of `usage/usage.go` on three integers, without its
intermediate assignments.

`keys[k]` is a row of `downstream_keys` without its counters, which are
`usage[k]`. Its `token` stands for `token_hash` and `sealed` for
`encrypted_token`: hash and cipher are taken to be one-to-one. `job[a]` is what
administrator a's handler has read; update and regenerate are a select and an
update (`UpdateRead`, `UpdateWrite`, `RegenerateRead`, `RegenerateWrite`), the
others one statement. `as[r]` is the key id in the context of request r.
`Insert` is the transaction of LogStore.Insert: row and counters in one step,
nothing on an error (`EndUnlogged`). Between `Admit` and these lies all of
module Gateway, which is left out here as it reads and writes none of this.
`DeleteLogs` is the deletion of an upstream key, any one.

`owner`, `dead`, `bearer` and `reported` are history variables; `Fresh` reads
`owner` for what 24 random bytes give, a token never seen before. `Init` may
hold a key from before the column `encrypted_token` was added.

### Store and AtomicStore

A call of `internal/store` is a program: a sequence of statements, those of a
transaction between `Begin` and `Commit`. `todo[w]` is what worker w has yet to
run, `conn` who holds the connection, `disk` the rows of the file, `work` the
rows the connection sees. A row is its table, its key and a value.

| Action | Code |
|---|---|
| `Start` | a handler calls the store |
| `Acquire` | database/sql hands out the connection, to any who waits |
| `BeginTx`, `Write`, `CommitTx` | ExecContext and the transaction around it |
| `Read` | a query whose rows are read to the end and closed |
| `Fail` | a cancelled context or an error, with the deferred Rollback |
| `Die` | the process ends; SQLite rolls back |

`CreateKey`, `MarkProbe`, `DeleteKey`, `InsertLog`, `ReplaceForKey`, `Migrate`
and the other programs list the statements of the function they are named for.
`InsertLog` has no counter to update when the request came with the token of the
environment, and its update hits no row when the downstream key has been deleted.

`AtomicStore` is the promise, without statements or a connection: a call takes
effect in one step (`Take`) or not at all, and succeeds only if it did. The
transactions (delete, log, replace) and the single write (revoke) fail only if
they did not. The code promises less of the two kinds of call without a
transaction: a Create may fail after its insert, in the select that follows
(`keys.go:55`), and a Mark call may see to a fresh health row (`Prepare`) and
then fail before its verdict (`state.go:130-147`, `175-209`).

### Session and Server

`cookie[b]` is what browser b sends: the secret it was signed with, its expiry
in whole seconds, the username, and as history when and for which password. `Opens` is Get;
`DropsAt` is what Max-Age and Expires tell the browser.

`Server` is the process: `phase` goes from `down` by `Boot` (the migration and
EnsureDefaultAdmin, statement by statement) and `Serve` to `up`, by `Close` to
`closing`, and from anywhere by `Exit` to `down`. Each start may have another
secret, another password and another username; `admin` is the one the process
was started with. EnsureDefaultAdmin does nothing only if *that* username has an
account, so a start with another one adds a second account. Up, the handlers of
the browsers, the log rows of
requests and the probes start the calls of `Store`: `Login` and `LoggedIn`,
`Dashboard`, `AddKey`, `RemoveKey`, `RemoveToken`, `Logout`, `Log`, `Probe`,
`Mark`; `Finish` is their return. `GetConnection`, `Step` and `Cancel` are the
steps and the failures of a call, a deletion that finds no row included,
`Refused` its failure on a closed database. `Log` takes any downstream key or
none, and any upstream key: either may have been deleted since. Downstream keys
are those an earlier version left; creating them is part of `Downstream`.
The database of the first start is empty or of a version before the columns
that `ensureColumnExists` adds.

## 3. Runs

| Run | Instance | Shows |
|---|---|---|
| `health_race` | 2 keys (one deletable), 2 callers, 2 failures each, cap 3 | TypeOK, RowConsistent, CooldownBounded, CountBounded, CooldownEnds |
| `health_lost` | 1 key, 2 callers | FailuresExtendCooldown is violated |
| `registry_serial` | 2 ids, 2 models, all bodies, one patient admin, 2 starts | TypeOK, QuietCatalogSound, QuietCatalogComplete, NoOrphanedHealth, UpdateKeepsOthers |
| `registry_overlap` | 2 ids, an impatient admin next to ProbeAll, 2 starts | CatalogOwnership, JobsEnd, HandlersAdvance, IsTheWorldOfGateway |
| `registry_disabled` | 1 id, 2 admins | QuietListsNoDisabled is violated |
| `gateway_pair` | 2 keys, 2 requests, deletions, restarts | InflightExact, CooldownRespected, DeletedNeverUsed, LogFaithful |
| `relay` | 1 key, 1 request, 1 prober, 2 failures, 3 kinds of chunk, streams of up to 2 chunks | RelayTypeOK (with the gateway's TypeOK), EndTellsOutcome, RelayedInOrder, UsageCounted, OnlyVerdictsCool, ImplementsGateway, RequestsEnd |
| `gateway_retry` | 2 keys, 1 request | RetriesElsewhere is violated |
| `gateway_unlogged` | 1 key, 1 request | CompletedIsLogged is violated |
| `selector` | all lists of up to 3 candidates | SelectsLeast |
| `downstream` | 2 ids, 3 tokens, 2 admins, 2 requests, 3 reports | TypeOK, ReplacedStaysDead, SealedCurrent, UsageExact, TotalsAgree, LogsKeepReports |
| `server` | 1 browser, 1 request, the starting process, 1 upstream and 1 downstream key, 2 models, 2 secrets, 2 usernames, 2 passwords | TypeOK, SomeoneGoesOn, FileWhole, ReadyWhenUp, SessionsLast, AdmissionEarned, ImplementsAtomicStore |

**Bounds, and why they are enough.** `MaxFailures` bounds the failure reports
begun for one key (calls that overlap may add a few). The code has no such bound:
a key that is probed or used again and again may fail for ever, each failure
extends its cooldown, and the cooldown then need not end. CooldownEnds therefore
says that each key is out of its cooldown again and again *unless* failures of it
are recorded again and again. `MaxNow` is where the
clock stops unless a key cools down: time is only compared with the ends of
cooldowns, so it has to pass exactly those. `Base = 1` and `Cap = 2` or `3` let
the cooldown double once and be capped. Two callers show every lost update
(a third only loses one more), one deletable and one permanent key every
relation of a row to its deletion. `MaxId = 2` lets one key be deleted and the
next created while work for the first is in flight. `MaxBoots = 2` is a restart
at any point. Two requests over two keys give each comparison of loads and
each order of increments; they are alike, so `gateway_pair` uses symmetry (it
checks no liveness). Three candidates let the best one change twice. In
`downstream` three tokens allow two keys and a regeneration or two
regenerations of one key, each around an update of the other administrator;
two ids a key that is deleted and another created while a request of the first
is served; the reports reach the branches of Normalize but the one for a
missing prompt, which the lemmas cover with all others. Administrators, requests and
tokens are each alike. In `relay` two chunks let a stream break off before,
between and after them, and repeat, complete or contradict the usage of the
first; the kinds are one with a count missing, one with a negative count and one
that cannot be decoded. `server` has one worker of each sort, so that every
pair of calls of different sorts meets on the connection, `ModelLists` with no
and with two models, and TTL 3 and MaxClock 5 at two ticks a second: sessions
that begin on a second and between two, and clocks on both sides of their end
and of the drop of their cookie. Its secrets, its usernames and its passwords
are each alike. `OneSide` bounds it further, to less than a million states: as
long as the clock stands at 0 and one username has been configured, anybody
calls; once time has passed or another username has come, only browsers and
starts do. Sessions share nothing with log rows, models and health but the
connection, which both sides have; the proofs have no such bound.

**Deadlock** is checked everywhere but in `selector`, whose loop ends.

**Fairness.** Only the system's own steps are fair: `WF(Step(r))` for each
request, `WF(Step(p))` for each handler and probe, `WF(Tick)` for the clock. Go
runs every runnable goroutine, and a statement or an HTTP call returns: the
upstream client gives up after 60 s (`app.go:106`, which `UpstreamFails`
stands for) and the clients of the probe after 30 s. That clients send, leave
or wait, that administrators act or that an upstream answers is never assumed.
`WF(Step)` is enough because each goroutine has one statement at a time; it is
not disabled by what the others do.

In `relay` a request's own steps are fair (`Runs`, with the timeout among
`ReadFails`), and a write is once its client has left. A client that stays
and does not read holds up a write for as long as it likes: the server has no
write timeout. RequestsEnd excepts exactly that client. In `server` liveness is
stated without fairness, as SomeoneGoesOn: in no state are all calls stuck.
That each call ends is not true without more, as database/sql may prefer others
for ever in the model, and with strong fairness TLC would need more than the
time of a run; the programs are finite, so SomeoneGoesOn and the fairness of
database/sql, which keeps its waiters in order, are what it would rest on.
SomeoneGoesOn is stated with `MayGoOn`, which says who can take a step without
ENABLED, so that it can be proved. In `registry_overlap`
HandlersAdvance is the same sort of statement: what keeps a handler from ending can only be that it is not scheduled.

**Violated runs** are places where the code does not do what the repository says:

* `health_lost`: the design says repeated failures extend the cooldown. Two
  requests that fail at once read the same count and record one failure, and
  the one that writes last may bring the end of the cooldown forward.
* `registry_disabled`: Rebuild holds no lock across its two selects and the
  swap. A slow rebuild that read the keys before one was disabled swaps after
  the rebuild that follows the update: the disabled key is routed to until
  something else rebuilds. QuietListsNoDisabled speaks of keys that are there,
  which the handler can read and use; a deleted key that stays listed, which
  QuietCatalogSound excludes as well, it cannot, as DeletedNeverUsed says.
* `gateway_retry`: README and design promise a retry on another eligible key;
  the handler answers 502.
* `gateway_unlogged`: the design says each completed request is logged. A
  client that closes its connection on `[DONE]` cancels the context of the
  insert, whose error is dropped.

Further limits of this kind, seen with other constants of `MCRegistry`
and not kept as runs: with `Impatient = {p1}` a hangup between the update and
the rebuild leaves a disabled key listed (`handlers_admin.go:164`, `:183`); with
two administrators a probe that ends after a deletion leaves a health row with
no key (`state.go:38`), and two PUTs undo each other's fields
(`handlers_admin.go:134-148`). DeletesApartOrphanNothing and PutsApartKeepOthers
(section 4) say that nothing else is needed for either. A failing probe returns
before the rebuild (`probe/service.go:83-86`), so a key enabled again may not be
listed until something else rebuilds; QuietCatalogComplete says that this leaves
out only keys with a recorded failure.
Two PUTs on a downstream key overlap likewise: one that names only
`name` writes `enabled` as it read it and may enable a key that was disabled in
between (`handlers_admin.go:228-242`). Overview counts a key as cooling down after its cooldown is over
(`state.go:267`), as it looks at the status alone.

Of the relay: a body that ends without `[DONE]` counts as complete
(`streaming.go:131`). A count that is not an integer, as an object of details
is, makes a whole chunk undecodable (`api_types.go:41`, `streaming.go:121`), so
that its usage is not booked, and in an answer that is no stream it gives a 502
and cools the key (`handlers_gateway.go:196`). The 60 s of the upstream client
include the body: a stream that is longer is broken off, and its key cooled
down (`app.go:106`). A client that leaves amid a stream leaves no log row and no
charge, as its context is the one of the insert.

Of the server: Shutdown makes Run return at once, Close then closes the database
under the requests it would have waited 5 s for (`app.go:132-154`). The
account of a username stays as its first start made it (`store/admin.go:42`):
another `ATOMHUB_ADMIN_PASSWORD` has no effect later, though `README.md:78` says
to sign in with the configured one; AdmissionEarned rests on this, as a cookie
would outlive the password it was given for. Another `ATOMHUB_ADMIN_USERNAME` adds
a second account, and both can sign in from then on, though `README.md:15`
speaks of a single-admin login session: ReadyWhenUp says that the configured
administrator has an account and that no username has two, and no more, as no
more holds. A Create that is cancelled after its insert answers an error though
the key is there (`keys.go:55`), and a Mark call that fails after its first
statement leaves a fresh, healthy row without the verdict. A logout clears the browser's cookie and
nothing else, so a copy lasts until its expiry, also over a restart with the
same secret. A configured name with a `|` can sign in and is never let in
(`auth/session.go:85-88`). The two queries of TokenStats may disagree
(`store/stats.go:54`).

**Mutants.** Every property of a passing run has a definition with a plausible
bug in the module, right before the definition it replaces and marked `Bug:`,
with which TLC finds the property violated.

## 4. Proofs

All are checked by tlapm with SMT, Zenon and LS4, for every value of the
constants that satisfies the named assumptions: keys are positive integers,
Base and Cap are positive, Startup is no administrator, Requests is finite and
apart from Probers, no token
is the environment's, reports are any integers, a session's TTL and a second
are positive, calls are those that `Server` lists, and upstream keys, downstream keys and
requests are apart, with no request called as the row of a key is.

| Theorem | Says |
|---|---|
| `KeyHealthProofs!TypeCorrect` | `Spec => []TypeOK` |
| `KeyHealthProofs!RowsAgree` | `Spec => []RowConsistent` |
| `KeyHealthProofs!CooldownsEndInTime` | `Spec => []CooldownBounded` |
| `KeyHealthProofs!FailuresNotInvented` | `Spec => []CountBounded` |
| `KeyHealthProofs!UpdatesApartExtendCooldown` | if no two updates of a row overlap, `Spec /\ []UpdatesApart => FailuresExtendCooldown` |
| `KeyHealthProofs!OneCallerExtendsCooldown` | with one caller, FailuresExtendCooldown |
| `RegistryProofs!RegistryTyped` | `Spec => []TypeOK`, with CallsMatch |
| `RegistryProofs!RegistryIsTheWorld` | `Spec => IsTheWorldOfGateway` |
| `RegistryProofs!HandlersRunOut` | `Spec => HandlersAdvance`, and Work is always a natural number |
| `RegistryProofs!CatalogOwned` | `Spec => []CatalogOwnership` |
| `RegistryProofs!ImplementsKeyHealth` | `Spec => H!Spec` |
| `RegistryProofs!HealthCarriesOver` | `Spec =>` KeyHealth's RowConsistent, CooldownBounded, CountBounded |
| `RegistryProofs!NoRowsLeftBehind` | `SerialSpec => []NoOrphanedHealth` |
| `RegistryProofs!CatalogSoundWhenQuiet` | if nobody is impatient, `SerialSpec => []QuietCatalogSound` |
| `RegistryProofs!CatalogCompleteWhenQuiet` | if nobody is impatient, `SerialSpec => []QuietCatalogComplete` |
| `RegistryProofs!UpdatesKeepOthers` | `SerialSpec => UpdateKeepsOthers` |
| `RegistryProofs!CatalogExactIfRebuildsApart` | if nobody is impatient, `Spec /\ []RebuildsApart => [](QuietCatalogSound /\ QuietCatalogComplete)` |
| `RegistryProofs!PutsApartKeepOthers` | `Spec /\ []PutsApart => UpdateKeepsOthers` |
| `RegistryProofs!DeletesApartOrphanNothing` | `Spec /\ [][DeletesApart]_registryVars => []NoOrphanedHealth` |
| `GatewayProofs!SlotsTyped` | `Spec => []SlotTypeOK` |
| `GatewayProofs!ImplementsKeyHealth` | `Spec => H!Spec` |
| `GatewayProofs!SlotsExact` | `Spec => []InflightExact` |
| `GatewayProofs!GatewayTyped` | `Spec => []TypeOK` |
| `GatewayProofs!HealthCarriesOver` | `Spec =>` KeyHealth's RowConsistent, CooldownBounded, CountBounded |
| `GatewayProofs!CooldownsRespected` | `Spec => []CooldownRespected` |
| `GatewayProofs!DeletedKeysUnused` | `Spec => []DeletedNeverUsed` |
| `GatewayProofs!LogsTell` | `Spec => []LogFaithful` |
| `GatewayProofs!VerdictsOnly` | `Spec => OnlyVerdictsCool` |
| `GatewayProofs!RequestsGoOn` | `Spec => []NoDeadEnd`: no request lacks what its next step needs |
| `GatewayProofs!RequestsRunOut` | with finitely many keys, each step of a request takes from `Remaining`, at most 2 for each key and 16 |
| `RelayProofs!RelayImplementsGateway` | `RelaySpec => ImplementsGateway` |
| `RelayProofs!GatewayCarriesOver` | `RelaySpec =>` the invariants above, OnlyVerdictsCool and NoDeadEnd |
| `RelayProofs!StreamsInOrder` | `RelaySpec => []RelayedInOrder` |
| `RelayProofs!EndsTell` | `RelaySpec => []EndTellsOutcome` |
| `RelayProofs!UsageBooked` | `RelaySpec => []UsageCounted` |
| `RelayProofs!RelayTypes` | `RelaySpec => []RelayTypeOK`, which is TypeOK and `StreamTypeOK` |
| `SelectorProofs!SelectCorrect` | `Spec => []SelectsLeast` |
| `SelectorProofs!SelectServesGateway` | at its end the loop has the one key that is `Selected`, and none only if there is no candidate |
| `DownstreamProofs!TypeCorrect` | `Spec => []TypeOK` |
| `DownstreamProofs!DeadStaysDead` | `Spec => []ReplacedStaysDead` |
| `DownstreamProofs!TokensUnique` | no two keys answer to one token |
| `DownstreamProofs!OwnersServed` | who is admitted with a token is served as its owner, and the token is not dead |
| `DownstreamProofs!RevealTells` | `Spec => []SealedCurrent` |
| `DownstreamProofs!TotalsAddUp` | `Spec => []TotalsAgree` |
| `DownstreamProofs!ReportsKept` | `Spec => []LogsKeepReports` |
| `DownstreamProofs!UsageCountsExact` | `Spec => []UsageExact` |
| `ServerProofs!TypeCorrect` | `Spec => []TypeOK` |
| `ServerProofs!ServesWhenReady` | `Spec => []ReadyWhenUp` |
| `ServerProofs!SessionsLastTheirTime` | `Spec => []SessionsLast` |
| `ServerProofs!AdmissionsEarned` | `Spec => AdmissionEarned` |
| `ServerProofs!NeverStuck` | `Spec => []SomeoneGoesOn` |
| `ServerProofs!CallsRunOut` | each step of a call takes from `Pending`, to which no other adds |
| `StoreProofs!CallsAtomic` | `Spec => ImplementsAtomicStore`: what is atomic in the store, and what the others may leave |
| `StoreProofs!FileAlwaysWhole` | `Spec => []FileWhole`: logs and counts agree while the downstream key is there, models are whole |

**KeyHealth.** The four properties are not inductive alone: what `MarkWrite`
writes depends on what `MarkRead` saw, perhaps long ago. `HealthInv` adds
`SeenBounded`, that a count once read is at most the failures recorded, which
only grow. Each action has a step of its own; a lemma bounds `FailureCooldown`.
The proofs are about `Spec`, where reports are unbounded; `BoundedSpec`, which
TLC runs, only drops behaviours. UpdatesApartExtendCooldown has any number of
callers and adds `SeenCurrent`: the count that a call is about to update is the
one it read. `UpdatesApart`, that no other call to the key is then about to update
its row, is exactly what `health_lost` breaks; a single caller satisfies it, which
gives OneCallerExtendsCooldown.

**Registry.** `Inv` says where everything comes from. `GoodJob`: what a handler
has read, be it a credential, a list of models or the catalog it is about to
swap in, is of a credential that its key has had. `StoreOK`: so are the model
rows and the credential of each key, and ids beyond `lastId` have none. `MarksOK`:
a job waits for a Mark call exactly while it has one open. As ids are never
reused, the credentials a key has had only grow, and what was good stays good
(`GoodStays`), however long a job has held it. CatalogOwnership follows. The same
induction shows that jobs step the health rows by KeyHealth's actions only
(`JobsStep`), which is ImplementsKeyHealth; HealthCarriesOver is then an
instance of KeyHealthProofs.

The theorems about `SerialSpec` have one handler at a time, and `SerialInv` says
what that buys: only one job runs (`Alone`), the world is as that job left it
(`SerialJob`), and the catalog is `Sound` except between a change of a key and
the swap that repairs it. A client that leaves may skip the swap, so the two about
the catalog ask for patient ones; the others do without.

With any number of administrators and with ProbeAll at any time, the same
properties need a hypothesis each, on the order of steps that the code does not
enforce, and the proofs show that this is all they need:

* `RebuildsApart`, no two rebuilds between their first select and their swap,
  for the catalog; `registry_disabled` breaks exactly this. The invariant is
  `Debts`: wherever the catalog (or, amid a rebuild, the `view` of its first
  select and the `next` it is about to swap in) parts from the tables, a handler
  that still runs answers for it. A listed key that is not enabled has a handler
  that will rebuild (`WillDrop`); an enabled one that is not listed has one that will
  rebuild or probe it, or a recorded failure (`WillList`), as a probe that fails
  does not rebuild. When all is quiet no handler is left to answer, and the
  catalog is exact but for those failures. `FailRows` adds that the failure a
  probe is to record finds a row to count in, `PutsWrite` that only PUTs write.
  Clients must stay here too, as in `SerialSpec`.
* `PutsApart`, no two PUTs to one key between their read and their write.
  `PutsCurrent` says that what a PUT will write is the row as it is with the
  body merged in; that the key may be deleted meanwhile does no harm, as ids are
  not handed out twice.
* `DeletesApart`, no deletion of a key on which another handler counts: one that
  has read it and may still write its health row, or that has it in the list of a
  ProbeAll. `KeysThere` says that what is counted on exists and `RowsThere` that rows
  are of keys that exist: rows come only with a key that is counted on
  (`RowsCome`), and a key that goes takes its row along (`KeysGo`).

RegistryIsTheWorld is by cases on the steps: `Seen` is what the gateway sees
(keys, health rows, clock, Mark calls), and each step of a job, an
administrator or the process is a `DeleteKey`, a step of a prober's call, a
`Tick` or a `Restart` of `Gateway`, or leaves `Seen` alone (`ObservesNothing`).
With it, what GatewayProofs show about `Gateway` in any world holds beside the
registry that the code has.

For HandlersRunOut, `Work(p)` is 16 for each key that handler p has yet to take
up, plus its rank. Each step of p takes from it: a loop's next pass costs a key,
the other steps go down in rank. `OthersWork` says that no step of another
handler changes it, though they share all tables; only a start or a restart
does. That the measure fits needs `CallsMatch`, now part of TypeOK: a job at a
call has that call open, for its key, and no other job has one.

**Gateway.** `SlotTypeOK` is inductive and says that a request past its
selection has a key. `InflightExact` is inductive with it: only `Enter`, `Leave`
and `Restart` change who holds a slot, and the lemmas `SlotTaken` and
`SlotGivenBack` say what each does to the cardinality of `Holding(k)`; that
`Leave` never finds a counter of 0 follows, so that the clamp at 0 in
DecrementInflight is never the reason for the equality. `ImplementsKeyHealth`
is the refinement: each step of the gateway is a step of `KeyHealth` or
leaves its variables alone. The abstract specification is `KeyHealth` itself,
whose callers may report anything at any time. `P`, an instance of
KeyHealthProofs with the gateway's callers, then gives HealthCarriesOver.

The other four properties relate what a request has read to what has happened
since, and none is inductive. `RequestInv` follows a request: as long as it is
routed, the keys that exist all did when it arrived (`exists` is within
`born[r]`); what it has read of a cooldown is no earlier than `due[r]`, the
earliest end it could have read, until its clock turns that into the candidates
that do not cool down, for which `due[r]` is 0 from then on (`DueFalls`: it only
falls). Once the upstream has answered, `OutcomeInv` ties the log row to the
outcome, and `MarkInv` says that the open call reports the request's own
outcome for its own key. `OthersWait` says that a step moves one request only.

RequestsGoOn and RequestsRunOut are what RequestsEnd rests on besides fairness.
For the first, `WayInv` says that a loop over candidates has one left, as the
catalog gave at least one; `SmallestNumber`, from the library's well-founded
order of the naturals, then yields the key a loop takes next and the one that
`Selected` asks for (`OneIsSelected`), for infinitely many keys too. For the
second, `Measure` counts the statements before a request, the keys of its loop
and the rest of its Mark call; `RequestMoves` says that each of its moves takes
from it, `OthersKeepAll` that no other step adds.

**Relay.** `RelayStep` maps each step to one of the gateway or none, and with it
what is proved of Gateway holds here. For the stream, `RelayInv` compares what
is written and what is queued with the whole stream as far as it is read,
`Stream(link[r], sent[r])`: the written items begin it (`Begins`), the queued
ones continue it (`Continues`), together they reach as far as has been read,
and the outcome is "ok" exactly when all is written. A read needs an empty queue,
so nothing is then pending (`AllWritten`), a write moves one item over
(`WriteOne`), and a failure leaves a proper beginning. RelayedInOrder and
EndTellsOutcome follow, as [DONE] is the last item of the whole stream and
nowhere else (`StreamFacts`). `CountInv` says that the merged counts are the
`Largest` of the reports so far, or those of the one full answer, and that
the log row has them normalised; `NormalizeCounts` says what that may change. RelayTypes adds to the
gateway's TypeOK where each piece of the stream's state can be (`StreamTypeOK`).

**Selector.** `BestSoFar` is the invariant of the loop. SelectServesGateway
takes `Gateway`'s view: a list of candidates with distinct ids, the loads of the
moment; `LeastIsSelected` says that the least of them is `Selected`, and
`AreCandidates` that the loop fails only if there is none.

**Downstream.** The lemma `NormalizeBooks` says of any three integers that what
is booked is natural and adds up, `NormalizeKeeps` that it keeps what is
consistent in them; TypeOK, TotalsAgree and LogsKeepReports follow by induction
over the steps.
`TokenInv` makes ReplacedStaysDead and SealedCurrent inductive with
`TokensOwned`: a key's token was generated for that key and every dead token was
generated once, so no two keys share one and a fresh token is not dead.
UsageExact adds `ChargesOwned`: the key in a request's context is the owner of
the token it came with, and no token is of a key to come. So a log row is
charged to the key whose sum it enters (`InsertExact`), a regeneration moves no
request (`ChargedStays`), and a new key starts with nobody charged to it
(`CreateExact`). `SumOver` is the cardinality of a set, with one element for each
token, and not a fold, whose steps the provers cannot follow; `SumAdd` says what one
request adds to it.

**Server.** What a call may still do is the rest of its program, and lemmas
about concatenation (`Joining` and those after it) say which statements that is.
`StoreInv` holds with it three things at once: a transaction's last statement
is its commit and only its holder sees uncommitted rows; no statement of a data
call touches the schema or the account; and a start that has got as far as its
n-th statement has found or done what the ones before it do, whatever was on
disk; and, at all times, no username has two accounts, as an account is only
inserted where its username has none. ReadyWhenUp follows when the program of a
start is empty. `CookieInv` says that a cookie was signed when it says, for the
password of its username's account, which nothing changes; with `SecondMeaning`
and `SecondMonotone`, the facts about division, this gives SessionsLast and
AdmissionEarned.

NeverStuck rests on `HolderInv`, that who holds the connection still has a
statement to run on it, for which a transaction must end with its commit
(`TransactionLeft`), and on `CallerInv`, that only browsers wait for the answer
to a login and only the starting process, while it starts, for that to a boot.
So either the holder goes on, or the connection is free for any who waits.
CallsRunOut adds that who goes on gets on: `Pending(w)`, two for each statement
left and the return, falls with each step of w's call, the wait for the
connection included, and is not touched by others (`OthersStepKeeps`).

**Store.** `CallsAtomic` is the refinement, for the calls that `Server` makes.
`Partial(c, n, db)` is what the connection of a transaction sees once n of its
statements have run, and `Progress` says that this is all there is: a
transaction that waits for the connection has run nothing, and what its holder
sees is `Partial` of the file. The lemmas `DeleteNext`, `LogNext` and
`ReplaceNext` say what the next statement of each transaction adds to it, and
that at its commit it is the effect the abstract call has. So a commit, and the
single write of a call without a transaction, map to `Take`; starts, failures,
returns and deaths map to the steps of the same name. A Create takes effect with
its insert, and its select stutters; of a Mark call the first `Ensure` that finds
no row maps to `Prepare` and its update to `Take`, which changes nothing if the
key was deleted in between. `CreateProgram` and `MarkProgram` say which suffix of
its program such a call is at, and `Took` when it has taken effect
(`TookMoves`, `OthersTook`: only its own steps change that). Every other
statement stutters, and a boot, which writes none of these tables, throughout.

FileAlwaysWhole rests on it: the file only changes by the effect of a whole call
(`EffectsWhole` says what each keeps) or by the health row a Mark call prepares,
and what else is written, by a start, is neither a log row nor a model. LogsCounted
asks for the count of a log row only while its downstream key is there: the
environment's token has no row in `downstream_keys`, a deleted key has lost its
counts with its row, and its id is not given out again. A ReplaceForKey outside a transaction, or a count
after the commit of its row, is where it would fail.

**Only model-checked:** liveness (CooldownEnds, JobsEnd, RequestsEnd; what of
JobsEnd and RequestsEnd needs no fairness is HandlersRunOut, RequestsGoOn and
RequestsRunOut).

## 5. Assumptions and abstractions

* Times are ticks, and the clock never steps back.
* A statement that fails for another reason than a cancelled context shows up
  as `MarkAbort` in KeyHealth only; handlers in Registry and Gateway fail when
  their client leaves, which covers the same exits.
* net/http cancels a request's context no later than a write to its client
  fails, so a stream that cannot be written to is one whose client is gone.
* Model names, tokens, error texts and JSON are not modelled; nor is the
  translation of requests and answers for Anthropic and Gemini, but for their
  counts.
* A statement of SQLite is done in full or not at all, and so is a commit; what
  was not committed is gone after a crash. database/sql gives the connection to
  any who waits for it.
* A username with a `|`, at which the session token is split, is not modelled.
* The clock of a browser is the server's. bcrypt and HMAC do what they promise:
  a password is known or it is not, and a signature is of one secret.

## 6. Plan

Done, in this order: KeyHealth, Selector, Registry, Gateway, Usage, Downstream,
Relay, Store, Session, Server, and the proofs: every invariant and action property
of a passing run has its theorem, for every value of the constants.

What is left is liveness of `Server` under a fairness that says how
database/sql orders its waiters. One module of `Registry` and `Gateway`
together would add what a request finds in a catalog that lags; for the rest
RegistryIsTheWorld says that `Gateway` already allows for all the registry does.

**Not modelled:** routing tables and pages (no state), the bodies of the
providers' protocols, password hashing and encryption (library calls), parsing
of the environment, and the handlers that only read for display (the list of
recent logs), which the queries of `Store` stand for.
