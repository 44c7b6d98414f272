--------------------------- MODULE RegistryProofs ---------------------------
(* What Registry guarantees for every number of keys, every set of models, *)
(* credentials and handlers, and however often the process starts.         *)
EXTENDS Registry, FiniteSetTheorems, WellFoundedInduction, TLAPS

(* What is proved of KeyHealth, for the ids that keys may have.            *)
P == INSTANCE KeyHealthProofs WITH Keys <- Ids, Deletable <- Ids, Callers <- Workers

LEMMA IdsAreIds == Ids \subseteq Nat \ {0} /\ 0 \notin Ids
  BY RegistryAssumption DEF Ids

LEMMA SameTypes == (H!TypeOK <=> P!TypeOK) /\ (H!TypeOK' <=> P!TypeOK')
  BY DEF H!TypeOK, P!TypeOK, H!Row, P!Row, H!Call, P!Call, H!Statuses, P!Statuses,
         H!Outcomes, P!Outcomes, H!NoKey, P!NoKey

LEMMA SameSteps == [H!Next]_healthVars <=> [P!Next]_(P!healthVars)
  <1>1. H!Next = P!Next
    BY DEF H!Next, P!Next, H!Report, P!Report, H!Proceed, P!Proceed, H!Outcomes, P!Outcomes,
           H!Ensure, P!Ensure, H!MarkBegin, P!MarkBegin, H!MarkReset, P!MarkReset,
           H!MarkRecheck, P!MarkRecheck, H!MarkRead, P!MarkRead, H!MarkWrite, P!MarkWrite,
           H!MarkAbort, P!MarkAbort, H!DeleteRow, P!DeleteRow, H!Crash, P!Crash, H!Tick, P!Tick,
           H!Ensured, P!Ensured, H!HasRow, P!HasRow, H!Opened, P!Opened, H!HasSeen, P!HasSeen,
           H!NoCall, P!NoCall, H!NoKey, P!NoKey, H!AbsentRow, P!AbsentRow,
           H!HealthyRow, P!HealthyRow, H!FailedRow, P!FailedRow,
           H!FailureCooldown, P!FailureCooldown, H!Doublings, P!Doublings
  <1>2. [H!Next]_healthVars <=> [H!Next]_(P!healthVars)
    BY DEF healthVars, P!healthVars
  <1>3. [H!Next]_(P!healthVars) <=> [P!Next]_(P!healthVars)
    BY <1>1
  <1> QED
    BY <1>2, <1>3

LEMMA HealthTypeStep == H!TypeOK /\ [H!Next]_healthVars => H!TypeOK'
  <1> SUFFICES ASSUME H!TypeOK, [H!Next]_healthVars PROVE H!TypeOK'
    OBVIOUS
  <1>1. P!TypeOK /\ [P!Next]_(P!healthVars)
    BY SameSteps, SameTypes
  <1>2. P!TypeOK'
    BY <1>1, P!TypeStep, HealthAssumption, IdsAreIds
  <1> QED
    BY <1>2, SameTypes

(* The loops visit the keys in the order of their ids.                     *)
LEMMA LeastIsOne ==
  ASSUME NEW S \in SUBSET Ids, S # {}
  PROVE  Least(S) \in S
  <1>1. S \subseteq Nat
    BY IdsAreIds
  <1>2. PICK k \in S : \A l \in S : ~(<<l, k>> \in OpToRel(<, Nat))
    BY <1>1, WFMin, NatLessThanWellFounded
  <1>3. \A l \in S : <<l, k>> \in OpToRel(<, Nat) <=> l < k
    BY <1>1 DEF OpToRel
  <1>4. \A l \in S : ~(l < k)
    BY <1>2, <1>3, Zenon
  <1>5. \A l \in S : k <= l
    BY <1>1, <1>4
  <1> QED
    BY <1>5 DEF Least

-----------------------------------------------------------------------------
(* The invariant.  h[k] are the credentials that key k has had.            *)

(* Key k may be listed for model m.                                        *)
Owns(h, k, m) == \E c \in h[k] : m \in Offers[c]

(* What a job has read is of keys as they are or were: the credential it   *)
(* probes with is one its key has had, and so are those of the keys it has *)
(* still to visit; what the provider listed, and the catalog it is about   *)
(* to swap in, the keys own.                                               *)
Works(j)    == j.pc \notin {"idle", "with_models", "states"}
HasKey(j)   == Works(j) /\ j.pc \notin {"list_enabled", "next"}

GoodJob(h, j) ==
    /\ Works(j) => j.op \notin {"none", "list"}
    /\ HasKey(j) => j.key \in Ids
    /\ j.pc = "write" => j.row.exists /\ j.row.cred \in Creds
    /\ j.pc = "list" => j.row.cred \in h[j.key]
    /\ j.pc = "replace" => \A m \in j.found : Owns(h, j.key, m)
    /\ \A m \in Models : \A k \in j.next[m] : Owns(h, k, m)
    /\ \A k \in Ids : j.todo[k].exists => j.todo[k].cred \in h[k]

JobsOK == job \in [Workers -> Job] /\ \A p \in Workers : GoodJob(held, job[p])

(* The key that exists has had the credential it has, a key that was never *)
(* created has had none, and keys own the models they are listed with.     *)
StoreOK ==
    /\ keys \in [Ids -> Key]
    /\ lastId \in 0 .. MaxId
    /\ keyModels \in [Ids -> SUBSET Models]
    /\ held \in [Ids -> SUBSET Creds]
    /\ \A k \in Ids : Exists(k) => keys[k].cred \in held[k]
    /\ \A k \in Ids : Enabled(k) => Exists(k)
    /\ \A k \in Ids : k > lastId => held[k] = {}
    /\ \A k \in Ids : \A m \in keyModels[k] : Owns(held, k, m)

CatalogOK ==
    /\ catalog \in [Models -> SUBSET Ids]
    /\ boots \in 1 .. MaxBoots
    /\ CatalogOwnership

(* A job that waits for a MarkProbe call has it open, and no other has.    *)
MarksOK ==
    \A p \in Workers :
        /\ job[p].pc \in {"marking", "failing"} <=> mark[p].pc # "idle"
        /\ mark[p].pc = "idle" => mark[p] = H!NoCall

Inv == H!TypeOK /\ JobsOK /\ StoreOK /\ CatalogOK /\ MarksOK

LEMMA InvTells == Inv => (CallsMatch => TypeOK) /\ CatalogOwnership
  BY DEF Inv, JobsOK, StoreOK, CatalogOK, MarksOK, TypeOK

-----------------------------------------------------------------------------
(* Jobs.                                                                   *)
LEMMA JobFields ==
  ASSUME NEW j \in Job
  PROVE  /\ j.op \in Ops /\ j.pc \in Pcs /\ j.key \in Ids \cup {H!NoKey} /\ j.patch \in Patch
         /\ j.row \in Key /\ j.found \subseteq Models /\ j.view \subseteq Ids
         /\ j.next \in [Models -> SUBSET Ids] /\ j.todo \in [Ids -> Key]
  BY DEF Job

LEMMA EmptyJob ==
  /\ AbsentKey \in Key /\ NoTodo \in [Ids -> Key] /\ NoModels \in [Models -> SUBSET Ids]
  /\ NoPatch \in Patch /\ NoJob \in Job
  <1>1. AbsentKey \in Key /\ NoTodo \in [Ids -> Key]
    BY DEF AbsentKey, Key, NoTodo
  <1>2. NoModels \in [Models -> SUBSET Ids] /\ NoPatch \in Patch
    BY DEF NoModels, NoPatch, Patch
  <1> QED
    BY <1>1, <1>2 DEF NoJob, Job, Ops, Pcs

LEMMA NothingIn == (\A m \in Models : NoModels[m] = {}) /\ (\A k \in Ids : ~NoTodo[k].exists)
  BY DEF NoModels, NoTodo, AbsentKey

(* A job that has nothing to do, and one that has just begun.              *)
LEMMA FreshJob ==
  ASSUME NEW h, NEW op \in Ops \ {"none", "list"}, NEW k \in Ids \cup {H!NoKey},
         NEW pc \in Pcs \ {"write", "list", "replace"},
         pc \in {"list_enabled", "next", "idle"} \/ k \in Ids
  PROVE  LET j == [NoJob EXCEPT !.op = op, !.key = k, !.pc = pc]
         IN  j \in Job /\ GoodJob(h, j)
  <1> DEFINE j == [NoJob EXCEPT !.op = op, !.key = k, !.pc = pc]
  <1>1. j \in Job
    BY EmptyJob DEF Job
  <1>2. /\ j.op = op /\ j.key = k /\ j.pc = pc /\ j.next = NoModels /\ j.todo = NoTodo
    BY DEF NoJob
  <1> HIDE DEF j
  <1>3. GoodJob(h, j)
    BY <1>2, NothingIn DEF GoodJob, Works, HasKey
  <1> QED
    BY <1>1, <1>3 DEF j

LEMMA NoJobGood == ASSUME NEW h PROVE GoodJob(h, NoJob)
  BY DEF GoodJob, NoJob, NoModels, NoTodo, AbsentKey, Works, HasKey

(* Credentials are only ever added, so what was good stays good.           *)
LEMMA GoodStays ==
  ASSUME NEW g \in [Ids -> SUBSET Creds], NEW h \in [Ids -> SUBSET Creds],
         \A k \in Ids : g[k] \subseteq h[k],
         NEW j \in Job, GoodJob(g, j)
  PROVE  GoodJob(h, j)
  <1>1. \A k \in Ids, m \in Models : Owns(g, k, m) => Owns(h, k, m)
    BY DEF Owns
  <1>2. j.found \subseteq Models /\ \A m \in Models : j.next[m] \subseteq Ids
    BY JobFields
  <1> QED
    BY <1>1, <1>2 DEF GoodJob, Works, HasKey

-----------------------------------------------------------------------------
(* What each action makes of the job of its process.                       *)
Calm == Pcs \ {"marking", "failing"}

JobMoves(p, pcs) ==
    \E j \in Job : j.pc \in pcs /\ GoodJob(held', j) /\ job' = [job EXCEPT ![p] = j]

LEMMA FinishMoves ==
  ASSUME JobsOK, NEW p \in Workers, Finish(p)
  PROVE  JobMoves(p, Calm)
  <1>1. NoJob.pc = "idle"
    BY DEF NoJob
  <1> QED
    BY <1>1, EmptyJob, NoJobGood DEF Finish, JobMoves, Calm, Pcs

LEMMA AfterProbeMoves ==
  ASSUME JobsOK, NEW p \in Workers, NEW ok \in BOOLEAN, held' = held, HasKey(job[p]),
         AfterProbe(p, ok)
  PROVE  JobMoves(p, Calm)
  <1>1. CASE Finish(p)
    BY <1>1, FinishMoves
  <1>2. CASE ~Finish(p)
    <2> DEFINE op == job[p].op
               pc == CASE op = "startup" -> "next"
                       [] op = "probe"   -> "report"
                       [] op = "update"  -> "state"
               j  == [NoJob EXCEPT !.op = op, !.key = job[p].key, !.todo = job[p].todo,
                                   !.pc = pc]
    <2>1. /\ job[p] \in Job /\ job[p].op \in Ops /\ job[p].key \in Ids
          /\ job[p].todo \in [Ids -> Key]
          /\ \A k \in Ids : job[p].todo[k].exists => job[p].todo[k].cred \in held[k]
      BY JobFields DEF JobsOK, GoodJob
    <2>2. op \in {"startup", "probe", "update"}
      BY <1>2, <2>1 DEF AfterProbe, Ops, JobsOK, GoodJob, HasKey
    <2>3. pc \in {"next", "report", "state"}
      <3>1. CASE op = "startup"
        BY <3>1, Zenon
      <3>2. CASE op = "probe"
        BY <3>2, Zenon
      <3>3. CASE op = "update"
        BY <3>3, Zenon
      <3> QED
        BY <2>2, <3>1, <3>2, <3>3
    <2>4. job' = [job EXCEPT ![p] = j]
      BY <1>2 DEF AfterProbe
    <2> HIDE DEF pc
    <2>5. j \in Job
      BY <2>1, <2>3, EmptyJob DEF Job, Pcs
    <2>6. /\ j.op = op /\ j.key = job[p].key /\ j.pc = pc /\ j.next = NoModels
          /\ j.todo = job[p].todo
      BY DEF NoJob
    <2> HIDE DEF j, op
    <2>7. GoodJob(held', j)
      BY <2>1, <2>2, <2>3, <2>6, NothingIn DEF GoodJob, Works, HasKey
    <2> QED
      BY <2>3, <2>4, <2>5, <2>6, <2>7 DEF JobMoves, Calm, Pcs
  <1> QED
    BY <1>1, <1>2

(* A job that goes on with what it has.                                    *)
LEMMA GotoMoves ==
  ASSUME JobsOK, NEW p \in Workers, HasKey(job[p]), NEW pc \in Pcs \ {"write", "list", "replace"},
         held' \in [Ids -> SUBSET Creds], held \in [Ids -> SUBSET Creds],
         \A k \in Ids : held[k] \subseteq held'[k],
         Goto(p, pc)
  PROVE  JobMoves(p, {pc})
  <1> DEFINE j == [job[p] EXCEPT !.pc = pc]
  <1>1. job[p] \in Job /\ GoodJob(held', job[p])
    BY GoodStays DEF JobsOK
  <1>2. j \in Job
    BY <1>1 DEF Job
  <1>3. job' = [job EXCEPT ![p] = j]
    BY DEF Goto
  <1>4. /\ j.op = job[p].op /\ j.key = job[p].key /\ j.pc = pc /\ j.next = job[p].next
        /\ j.todo = job[p].todo
    BY <1>1 DEF Job
  <1> HIDE DEF j
  <1>5. GoodJob(held', j)
    BY <1>1, <1>4 DEF GoodJob, Works, HasKey
  <1> QED
    BY <1>2, <1>3, <1>4, <1>5 DEF JobMoves

LEMMA CreateMoves ==
  ASSUME JobsOK, StoreOK, NEW p \in Workers, NEW e, NEW c, Create(p, e, c)
  PROVE  JobMoves(p, Calm)
  <1>1. FreshId \in Ids
    BY RegistryAssumption DEF Create, FreshId, Ids, StoreOK
  <1> DEFINE j == [NoJob EXCEPT !.op = "create", !.key = FreshId, !.pc = "reread"]
  <1>2. j \in Job /\ GoodJob(held', j)
    BY <1>1, FreshJob DEF Ops, Pcs
  <1>3. j.pc = "reread" /\ job' = [job EXCEPT ![p] = j]
    BY DEF Create, NoJob
  <1> QED
    BY <1>2, <1>3 DEF JobMoves, Calm, Pcs

LEMMA DeleteMoves ==
  ASSUME JobsOK, NEW p \in Workers, NEW k \in Ids, Delete(p, k)
  PROVE  JobMoves(p, Calm)
  <1> DEFINE j == [NoJob EXCEPT !.op = "delete", !.key = k, !.pc = "rkeys"]
  <1>1. j \in Job /\ GoodJob(held', j)
    BY FreshJob DEF Ops, Pcs
  <1>2. j.pc = "rkeys" /\ job' = [job EXCEPT ![p] = j]
    BY DEF Delete, NoJob
  <1> QED
    BY <1>1, <1>2 DEF JobMoves, Calm, Pcs

LEMMA ProbeMoves ==
  ASSUME JobsOK, NEW p \in Workers, NEW k \in Ids, Probe(p, k)
  PROVE  JobMoves(p, Calm)
  <1> DEFINE j == [NoJob EXCEPT !.op = "probe", !.key = k, !.pc = "fetch"]
  <1>1. j \in Job /\ GoodJob(held', j)
    BY FreshJob DEF Ops, Pcs
  <1>2. j.pc = "fetch" /\ job' = [job EXCEPT ![p] = j]
    BY DEF Probe, NoJob
  <1> QED
    BY <1>1, <1>2 DEF JobMoves, Calm, Pcs

LEMMA UpdateReadMoves ==
  ASSUME JobsOK, StoreOK, NEW p \in Workers, NEW k \in Ids, NEW q \in Puts,
         UpdateRead(p, k, q)
  PROVE  JobMoves(p, Calm)
  <1> DEFINE row == Merge(keys[k], q)
             j == [NoJob EXCEPT !.op = "update", !.key = k, !.patch = q, !.pc = "write",
                                !.row = row]
  <1>1. q \in Patch
    BY RegistryAssumption DEF Patch
  <1>2. keys[k] \in Key /\ keys[k].cred \in Creds
    BY DEF UpdateRead, StoreOK, Exists
  <1>3. row \in Key /\ row.exists /\ row.cred \in Creds
    BY <1>1, <1>2 DEF Merge, Row, Key, Patch
  <1>4. job' = [job EXCEPT ![p] = j]
    BY DEF UpdateRead
  <1> HIDE DEF row
  <1>5. j \in Job
    BY <1>1, <1>3, EmptyJob DEF Job, Ops, Pcs
  <1>6. /\ j.op = "update" /\ j.key = k /\ j.pc = "write" /\ j.row = row
        /\ j.next = NoModels /\ j.todo = NoTodo
    BY DEF NoJob
  <1> HIDE DEF j
  <1>7. GoodJob(held', j)
    BY <1>3, <1>6, NothingIn DEF GoodJob, Works, HasKey
  <1> QED
    BY <1>4, <1>5, <1>6, <1>7 DEF JobMoves, Calm, Pcs

LEMMA RereadMoves ==
  ASSUME JobsOK, StoreOK, NEW p \in Workers, Reread(p)
  PROVE  JobMoves(p, Calm)
  <1> DEFINE k == job[p].key
             j == [job[p] EXCEPT !.row = keys[k], !.patch = NoPatch, !.pc = "ensure"]
  <1>1. held' = held
    BY DEF Reread, storeVars
  <1>2. job[p] \in Job /\ GoodJob(held, job[p]) /\ HasKey(job[p])
    BY DEF JobsOK, Reread, At, Works, HasKey
  <1>3. k \in Ids /\ keys[k] \in Key
    BY <1>2 DEF GoodJob, StoreOK
  <1>4. CASE Exists(k)
    <2>1. job' = [job EXCEPT ![p] = j]
      BY <1>4 DEF Reread, JobsOK
    <2>2. j \in Job
      BY <1>2, <1>3, EmptyJob DEF Job, Pcs
    <2>3. /\ j.op = job[p].op /\ j.key = job[p].key /\ j.pc = "ensure"
          /\ j.next = job[p].next /\ j.todo = job[p].todo
      BY <1>2 DEF Job
    <2> HIDE DEF j
    <2>4. GoodJob(held', j)
      BY <1>1, <1>2, <2>3 DEF GoodJob, Works, HasKey
    <2> QED
      BY <2>1, <2>2, <2>3, <2>4 DEF JobMoves, Calm, Pcs
  <1>5. CASE ~Exists(k)
    BY <1>5, FinishMoves DEF Reread
  <1> QED
    BY <1>4, <1>5

LEMMA FetchMoves ==
  ASSUME JobsOK, StoreOK, NEW p \in Workers, Fetch(p)
  PROVE  JobMoves(p, Calm)
  <1> DEFINE k == job[p].key
             j == [job[p] EXCEPT !.row = keys[k], !.pc = "list"]
  <1>1. held' = held
    BY DEF Fetch, storeVars
  <1>2. job[p] \in Job /\ GoodJob(held, job[p]) /\ HasKey(job[p])
    BY DEF JobsOK, Fetch, At, Works, HasKey
  <1>3. k \in Ids /\ keys[k] \in Key
    BY <1>2 DEF GoodJob, StoreOK
  <1>4. CASE Exists(k)
    <2>1. job' = [job EXCEPT ![p] = j]
      BY <1>4 DEF Fetch, JobsOK
    <2>2. j \in Job
      BY <1>2, <1>3 DEF Job, Pcs
    <2>3. /\ j.op = job[p].op /\ j.key = k /\ j.pc = "list" /\ j.row = keys[k]
          /\ j.next = job[p].next /\ j.todo = job[p].todo
      BY <1>2 DEF Job
    <2>4. keys[k].cred \in held[k]
      BY <1>3, <1>4 DEF StoreOK
    <2> HIDE DEF j
    <2>5. GoodJob(held', j)
      BY <1>1, <1>2, <2>3, <2>4 DEF GoodJob, Works, HasKey
    <2> QED
      BY <2>1, <2>2, <2>3, <2>5 DEF JobMoves, Calm, Pcs
  <1>5. CASE ~Exists(k)
    BY <1>1, <1>2, <1>5, AfterProbeMoves DEF Fetch
  <1> QED
    BY <1>4, <1>5

LEMMA ListModelsMoves ==
  ASSUME JobsOK, StoreOK, NEW p \in Workers, ListModels(p)
  PROVE  JobMoves(p, Calm)
  <1> DEFINE found == Offers[job[p].row.cred]
             j == [job[p] EXCEPT !.found = found, !.row = AbsentKey, !.pc = "replace"]
  <1>1. held' = held
    BY DEF ListModels, storeVars
  <1>2. job[p] \in Job /\ GoodJob(held, job[p]) /\ HasKey(job[p])
    BY DEF JobsOK, ListModels, At, Works, HasKey
  <1>3. job[p].key \in Ids /\ job[p].row.cred \in held[job[p].key]
    BY <1>2 DEF GoodJob, ListModels, At
  <1>4. found \subseteq Models
    BY <1>3, RegistryAssumption DEF StoreOK
  <1>5. \A m \in found : Owns(held, job[p].key, m)
    BY <1>3 DEF Owns
  <1>6. job' = [job EXCEPT ![p] = j]
    BY DEF ListModels, JobsOK
  <1> HIDE DEF found
  <1>7. j \in Job
    BY <1>2, <1>4, EmptyJob DEF Job, Pcs
  <1>8. /\ j.op = job[p].op /\ j.key = job[p].key /\ j.pc = "replace" /\ j.found = found
        /\ j.next = job[p].next /\ j.todo = job[p].todo
    BY <1>2 DEF Job
  <1> HIDE DEF j
  <1>9. GoodJob(held', j)
    BY <1>1, <1>2, <1>5, <1>8 DEF GoodJob, Works, HasKey
  <1> QED
    BY <1>6, <1>7, <1>8, <1>9 DEF JobMoves, Calm, Pcs

LEMMA ReplaceMoves ==
  ASSUME JobsOK, NEW p \in Workers, ReplaceForKey(p)
  PROVE  JobMoves(p, Calm)
  <1> DEFINE j == [job[p] EXCEPT !.found = {}, !.pc = "mark"]
  <1>1. held' = held
    BY DEF ReplaceForKey
  <1>2. job[p] \in Job /\ GoodJob(held, job[p]) /\ HasKey(job[p])
    BY DEF JobsOK, ReplaceForKey, At, Works, HasKey
  <1>3. job' = [job EXCEPT ![p] = j]
    BY DEF ReplaceForKey, JobsOK
  <1>4. j \in Job
    BY <1>2 DEF Job, Pcs
  <1>5. /\ j.op = job[p].op /\ j.key = job[p].key /\ j.pc = "mark"
        /\ j.next = job[p].next /\ j.todo = job[p].todo
    BY <1>2 DEF Job
  <1> HIDE DEF j
  <1>6. GoodJob(held', j)
    BY <1>1, <1>2, <1>5 DEF GoodJob, Works, HasKey
  <1> QED
    BY <1>3, <1>4, <1>5, <1>6 DEF JobMoves, Calm, Pcs

LEMMA ReadKeysMoves ==
  ASSUME JobsOK, NEW p \in Workers, ReadKeys(p)
  PROVE  JobMoves(p, Calm)
  <1> DEFINE j == [job[p] EXCEPT !.view = EnabledKeys, !.pc = "rmodels"]
  <1>1. held' = held
    BY DEF ReadKeys, storeVars
  <1>2. job[p] \in Job /\ GoodJob(held, job[p]) /\ HasKey(job[p])
    BY DEF JobsOK, ReadKeys, At, Works, HasKey
  <1>3. job' = [job EXCEPT ![p] = j]
    BY DEF ReadKeys, JobsOK
  <1>4. EnabledKeys \subseteq Ids
    BY DEF EnabledKeys
  <1>5. j \in Job
    BY <1>2, <1>4 DEF Job, Pcs
  <1>6. /\ j.op = job[p].op /\ j.key = job[p].key /\ j.pc = "rmodels"
        /\ j.next = job[p].next /\ j.todo = job[p].todo
    BY <1>2 DEF Job
  <1> HIDE DEF j
  <1>7. GoodJob(held', j)
    BY <1>1, <1>2, <1>6 DEF GoodJob, Works, HasKey
  <1> QED
    BY <1>3, <1>5, <1>6, <1>7 DEF JobMoves, Calm, Pcs

LEMMA DeriveOwned ==
  ASSUME StoreOK, NEW S \in SUBSET Ids
  PROVE  /\ Derive(S, keyModels) \in [Models -> SUBSET Ids]
         /\ \A m \in Models : \A k \in Derive(S, keyModels)[m] : Owns(held, k, m)
  BY DEF Derive, StoreOK

LEMMA ReadModelsMoves ==
  ASSUME JobsOK, StoreOK, NEW p \in Workers, ReadModels(p)
  PROVE  JobMoves(p, Calm)
  <1> DEFINE next == Derive(job[p].view, keyModels)
             j == [job[p] EXCEPT !.next = next, !.view = {}, !.pc = "swap"]
  <1>1. held' = held
    BY DEF ReadModels, storeVars
  <1>2. job[p] \in Job /\ GoodJob(held, job[p]) /\ HasKey(job[p])
    BY DEF JobsOK, ReadModels, At, Works, HasKey
  <1>3. job' = [job EXCEPT ![p] = j]
    BY DEF ReadModels, JobsOK
  <1>4. /\ next \in [Models -> SUBSET Ids]
        /\ \A m \in Models : \A k \in next[m] : Owns(held, k, m)
    BY <1>2, JobFields, DeriveOwned
  <1> HIDE DEF next
  <1>5. j \in Job
    BY <1>2, <1>4 DEF Job, Pcs
  <1>6. /\ j.op = job[p].op /\ j.key = job[p].key /\ j.pc = "swap"
        /\ j.next = next /\ j.todo = job[p].todo
    BY <1>2 DEF Job
  <1> HIDE DEF j
  <1>7. GoodJob(held', j)
    BY <1>1, <1>2, <1>4, <1>6 DEF GoodJob, Works, HasKey
  <1> QED
    BY <1>3, <1>5, <1>6, <1>7 DEF JobMoves, Calm, Pcs

(* The loops: what is still to visit was listed, and is left out in turn.  *)
LEMMA ListedOK ==
  ASSUME StoreOK, NEW S \in SUBSET Ids
  PROVE  /\ Listed(S) \in [Ids -> Key]
         /\ \A k \in Ids : Listed(S)[k].exists => Listed(S)[k].cred \in held[k]
  <1>1. \A k \in Ids : Listed(S)[k] = IF k \in S THEN keys[k] ELSE AbsentKey
    BY DEF Listed
  <1>2. Listed(S) \in [Ids -> Key]
    BY EmptyJob DEF Listed, StoreOK
  <1>3. ~AbsentKey.exists
    BY DEF AbsentKey
  <1> QED
    BY <1>1, <1>2, <1>3 DEF StoreOK, Exists

LEMMA ListMoves ==
  ASSUME JobsOK, StoreOK, NEW p \in Workers, List(p)
  PROVE  JobMoves(p, Calm)
  <1> DEFINE todo == Listed({k \in Ids : Exists(k)})
             j(pc) == [NoJob EXCEPT !.op = "list", !.pc = pc, !.todo = todo]
  <1>1. PICK pc \in {"states", "with_models"} : job' = [job EXCEPT ![p] = j(pc)]
    BY DEF List
  <1>2. held' = held
    BY DEF List, storeVars
  <1>3. todo \in [Ids -> Key] /\ \A k \in Ids : todo[k].exists => todo[k].cred \in held[k]
    BY ListedOK
  <1> HIDE DEF todo
  <1>4. j(pc) \in Job
    BY <1>3, EmptyJob DEF Job, Ops, Pcs
  <1>5. /\ j(pc).op = "list" /\ j(pc).pc = pc /\ j(pc).next = NoModels /\ j(pc).todo = todo
    BY DEF NoJob
  <1> HIDE DEF j
  <1>6. GoodJob(held', j(pc))
    BY <1>2, <1>3, <1>5, NothingIn DEF GoodJob, Works, HasKey
  <1> QED
    BY <1>1, <1>4, <1>5, <1>6 DEF JobMoves, Calm, Pcs

(* A job that leaves some keys out of those it has still to visit.         *)
LEMMA FewerMoves ==
  ASSUME JobsOK, NEW p \in Workers, ~Works(job[p]), held' = held,
         NEW pc \in {"with_models", "states"}, NEW todo \in [Ids -> Key],
         \A k \in Ids : todo[k].exists => todo[k] = job[p].todo[k],
         job' = [job EXCEPT ![p] = [job[p] EXCEPT !.pc = pc, !.todo = todo]]
  PROVE  JobMoves(p, Calm)
  <1> DEFINE j == [job[p] EXCEPT !.pc = pc, !.todo = todo]
  <1>1. job[p] \in Job /\ GoodJob(held, job[p])
    BY DEF JobsOK
  <1>2. j \in Job
    BY <1>1 DEF Job, Pcs
  <1>3. /\ j.pc = pc /\ j.next = job[p].next /\ j.todo = todo
    BY <1>1 DEF Job
  <1>4. job' = [job EXCEPT ![p] = j]
    OBVIOUS
  <1> HIDE DEF j
  <1>5. GoodJob(held', j)
    BY <1>1, <1>3 DEF GoodJob, Works, HasKey
  <1> QED
    BY <1>2, <1>3, <1>4, <1>5 DEF JobMoves, Calm, Pcs

LEMMA KeepWithModelsMoves ==
  ASSUME JobsOK, NEW p \in Workers, KeepWithModels(p)
  PROVE  JobMoves(p, Calm)
  <1> DEFINE old  == job[p].todo
             todo == [k \in Ids |-> IF old[k].enabled /\ keyModels[k] # {} THEN old[k]
                                    ELSE AbsentKey]
  <1>1. held' = held /\ ~Works(job[p]) /\ job[p].pc = "with_models"
    BY DEF KeepWithModels, storeVars, At, Works
  <1>2. old \in [Ids -> Key]
    BY JobFields DEF JobsOK
  <1>3. todo \in [Ids -> Key] /\ \A k \in Ids : todo[k].exists => todo[k] = old[k]
    BY <1>2, EmptyJob DEF AbsentKey
  <1>4. job' = [job EXCEPT ![p] = [job[p] EXCEPT !.pc = "states", !.todo = todo]]
    <2>1. job[p] \in Job /\ job \in [Workers -> Job]
      BY DEF JobsOK
    <2>2. job' = [job EXCEPT ![p].pc = "states", ![p].todo = todo]
      BY <2>1 DEF KeepWithModels, Job
    <2> HIDE DEF todo
    <2> QED
      BY <2>1, <2>2
  <1> HIDE DEF todo
  <1> QED
    BY <1>1, <1>3, <1>4, FewerMoves

LEMMA ListStateMoves ==
  ASSUME JobsOK, NEW p \in Workers, ListState(p)
  PROVE  JobMoves(p, Calm) /\ (healthVars' = healthVars \/ \E k \in Ids : H!Ensure(k))
  <1>1. CASE Left(p) = {}
    BY <1>1, FinishMoves DEF ListState
  <1>2. CASE Left(p) # {}
    <2> DEFINE k == Least(Left(p))
               todo == [job[p].todo EXCEPT ![k] = AbsentKey]
    <2>1. k \in Ids
      BY <1>2, LeastIsOne DEF Left
    <2>2. held' = held /\ ~Works(job[p]) /\ job[p].pc = "states"
      BY DEF ListState, storeVars, At, Works
    <2>3. H!Ensure(k) /\ job' = [job EXCEPT ![p].todo[k] = AbsentKey]
      BY <1>2 DEF ListState
    <2> HIDE DEF k
    <2>4. job[p] \in Job /\ job \in [Workers -> Job] /\ job[p].todo \in [Ids -> Key]
      BY JobFields DEF JobsOK
    <2>5. todo \in [Ids -> Key] /\ \A l \in Ids : todo[l].exists => todo[l] = job[p].todo[l]
      BY <2>1, <2>4, EmptyJob DEF AbsentKey
    <2>6. job' = [job EXCEPT ![p] = [job[p] EXCEPT !.todo = todo]]
      BY <2>3
    <2>7. [job[p] EXCEPT !.todo = todo] = [job[p] EXCEPT !.pc = "states", !.todo = todo]
      BY <2>2, <2>4 DEF Job
    <2> HIDE DEF todo
    <2>8. JobMoves(p, Calm)
      BY <2>2, <2>5, <2>6, <2>7, FewerMoves
    <2> QED
      BY <2>1, <2>3, <2>8
  <1> QED
    BY <1>1, <1>2

LEMMA ListEnabledMoves ==
  ASSUME JobsOK, StoreOK, NEW p \in Workers, ListEnabled(p)
  PROVE  JobMoves(p, Calm)
  <1> DEFINE todo == Listed(EnabledKeys)
             j == [job[p] EXCEPT !.todo = todo, !.pc = "next"]
  <1>1. held' = held
    BY DEF ListEnabled, storeVars
  <1>2. job[p] \in Job /\ GoodJob(held, job[p]) /\ Works(job[p])
    BY DEF JobsOK, ListEnabled, At, Works
  <1>3. todo \in [Ids -> Key] /\ \A k \in Ids : todo[k].exists => todo[k].cred \in held[k]
    BY ListedOK DEF EnabledKeys
  <1>4. job' = [job EXCEPT ![p] = j]
    BY DEF ListEnabled, JobsOK
  <1> HIDE DEF todo
  <1>5. j \in Job
    BY <1>2, <1>3 DEF Job, Pcs
  <1>6. /\ j.op = job[p].op /\ j.pc = "next" /\ j.next = job[p].next /\ j.todo = todo
    BY <1>2 DEF Job
  <1> HIDE DEF j
  <1>7. GoodJob(held', j)
    BY <1>1, <1>2, <1>3, <1>6 DEF GoodJob, Works, HasKey
  <1> QED
    BY <1>4, <1>5, <1>6, <1>7 DEF JobMoves, Calm, Pcs

LEMMA ProbeNextMoves ==
  ASSUME JobsOK, NEW p \in Workers, ProbeNext(p)
  PROVE  JobMoves(p, Calm)
  <1>1. CASE Left(p) = {}
    BY <1>1, FinishMoves DEF ProbeNext
  <1>2. CASE Left(p) # {}
    <2> DEFINE k == Least(Left(p))
               old == job[p].todo
               todo == [old EXCEPT ![k] = AbsentKey]
               row == old[k]
               j == [job[p] EXCEPT !.key = k, !.row = row, !.todo = todo, !.pc = "list"]
    <2>1. k \in Ids /\ row.exists
      BY <1>2, LeastIsOne DEF Left
    <2>2. held' = held
      BY DEF ProbeNext, storeVars
    <2>3. job[p] \in Job /\ job \in [Workers -> Job] /\ old \in [Ids -> Key]
      BY JobFields DEF JobsOK
    <2>4. job' = [job EXCEPT ![p].key = k, ![p].row = row, ![p].todo[k] = AbsentKey,
                             ![p].pc = "list"]
      BY <1>2 DEF ProbeNext
    <2> HIDE DEF k
    <2>5. todo \in [Ids -> Key] /\ \A l \in Ids : todo[l].exists => todo[l] = old[l]
      BY <2>1, <2>3, EmptyJob DEF AbsentKey
    <2>6. GoodJob(held, job[p]) /\ Works(job[p]) /\ row \in Key /\ row.cred \in held[k]
      BY <2>1, <2>3 DEF JobsOK, GoodJob, ProbeNext, At, Works
    <2>7. job' = [job EXCEPT ![p] = j]
      BY <2>3, <2>4 DEF Job
    <2> HIDE DEF todo, row
    <2>8. j \in Job
      BY <2>1, <2>3, <2>5, <2>6 DEF Job, Pcs
    <2>9. /\ j.op = job[p].op /\ j.key = k /\ j.pc = "list" /\ j.row = row
          /\ j.next = job[p].next /\ j.todo = todo
      BY <2>3 DEF Job
    <2> HIDE DEF j
    <2>10. GoodJob(held', j)
      BY <2>1, <2>2, <2>5, <2>6, <2>9 DEF GoodJob, Works, HasKey
    <2> QED
      BY <2>7, <2>8, <2>9, <2>10 DEF JobMoves, Calm, Pcs
  <1> QED
    BY <1>1, <1>2

-----------------------------------------------------------------------------
(* The store.                                                              *)
HeldGrows ==
    /\ held' \in [Ids -> SUBSET Creds]
    /\ \A k \in Ids : held[k] \subseteq held'[k]

LEMMA OwnsStays ==
  ASSUME StoreOK, HeldGrows, NEW k \in Ids, NEW m, Owns(held, k, m)
  PROVE  Owns(held', k, m)
  BY DEF Owns, HeldGrows

LEMMA CreateStore ==
  ASSUME StoreOK, NEW p \in Workers, NEW e \in BOOLEAN, NEW c \in Creds, Create(p, e, c)
  PROVE  HeldGrows /\ StoreOK'
  <1> DEFINE n == FreshId
  <1>1. lastId \in Nat /\ n = lastId + 1 /\ n \in Ids
    BY RegistryAssumption DEF StoreOK, FreshId, Create, Ids
  <1>2. /\ keys' = [keys EXCEPT ![n] = Row(e, c)]
        /\ held' = [held EXCEPT ![n] = {c}]
        /\ lastId' = n /\ keyModels' = keyModels /\ lastId < MaxId
    BY <1>1 DEF Create
  <1>3. held[n] = {}
    BY <1>1 DEF StoreOK
  <1>4. HeldGrows
    BY <1>1, <1>2, <1>3 DEF StoreOK, HeldGrows
  <1>5. keys' \in [Ids -> Key] /\ Row(e, c).cred = c
    BY <1>1, <1>2 DEF StoreOK, Row, Key
  <1>6. lastId' \in 0 .. MaxId
    BY <1>1, <1>2, RegistryAssumption DEF StoreOK
  <1>7. \A k \in Ids : /\ Exists(k)' => keys'[k].cred \in held'[k]
                       /\ Enabled(k)' => Exists(k)'
    BY <1>1, <1>2, <1>5 DEF StoreOK, Exists, Enabled, Row
  <1>8. \A k \in Ids : k > lastId' => held'[k] = {}
    BY <1>1, <1>2, IdsAreIds DEF StoreOK
  <1>9. \A k \in Ids : \A m \in keyModels'[k] : Owns(held', k, m)
    BY <1>2, <1>4, OwnsStays DEF StoreOK
  <1> QED
    BY <1>2, <1>4, <1>5, <1>6, <1>7, <1>8, <1>9 DEF StoreOK, HeldGrows

LEMMA UpdateWriteStore ==
  ASSUME StoreOK, JobsOK, NEW p \in Workers, UpdateWrite(p)
  PROVE  HeldGrows /\ StoreOK'
  <1> DEFINE n == job[p].key
             row == job[p].row
  <1>1. n \in Ids /\ row \in Key /\ row.exists /\ row.cred \in Creds
    BY JobFields DEF JobsOK, GoodJob, Works, HasKey, UpdateWrite, At
  <1>2. lastId' = lastId /\ keyModels' = keyModels
    BY DEF UpdateWrite
  <1>3. CASE ~Exists(n)
    <2>1. keys' = keys /\ held' = held
      BY <1>3 DEF UpdateWrite
    <2> QED
      BY <1>2, <2>1 DEF StoreOK, HeldGrows, Exists, Enabled
  <1>4. CASE Exists(n)
    <2>1. /\ keys' = [keys EXCEPT ![n] = row]
          /\ held' = [held EXCEPT ![n] = held[n] \cup {row.cred}]
      BY <1>4 DEF UpdateWrite
    <2> HIDE DEF row, n
    <2>2. HeldGrows
      BY <1>1, <2>1 DEF StoreOK, HeldGrows
    <2>3. keys' \in [Ids -> Key]
      BY <1>1, <2>1 DEF StoreOK
    <2>4. \A k \in Ids : /\ Exists(k)' => keys'[k].cred \in held'[k]
                         /\ Enabled(k)' => Exists(k)'
      BY <1>1, <2>1 DEF StoreOK, Exists, Enabled
    <2>5. \A k \in Ids : k > lastId' => held'[k] = {}
      BY <1>1, <1>2, <1>4, <2>1 DEF StoreOK
    <2>6. \A k \in Ids : \A m \in keyModels'[k] : Owns(held', k, m)
      BY <1>2, <2>2, OwnsStays DEF StoreOK
    <2> QED
      BY <1>2, <2>2, <2>3, <2>4, <2>5, <2>6 DEF StoreOK, HeldGrows
  <1> QED
    BY <1>3, <1>4

LEMMA DeleteStore ==
  ASSUME StoreOK, NEW p \in Workers, NEW n \in Ids, Delete(p, n)
  PROVE  HeldGrows /\ StoreOK'
  <1>1. /\ keys' = [keys EXCEPT ![n] = AbsentKey] /\ keyModels' = [keyModels EXCEPT ![n] = {}]
        /\ lastId' = lastId /\ held' = held
    BY DEF Delete
  <1>2. AbsentKey \in Key /\ ~AbsentKey.exists /\ ~AbsentKey.enabled
    BY EmptyJob DEF AbsentKey
  <1> QED
    BY <1>1, <1>2 DEF StoreOK, HeldGrows, Exists, Enabled

LEMMA ReplaceStore ==
  ASSUME StoreOK, JobsOK, NEW p \in Workers, ReplaceForKey(p)
  PROVE  HeldGrows /\ StoreOK'
  <1> DEFINE n == job[p].key
  <1>1. /\ keys' = keys /\ lastId' = lastId /\ held' = held
        /\ keyModels' = [keyModels EXCEPT ![n] = job[p].found]
    BY DEF ReplaceForKey
  <1>2. /\ n \in Ids /\ job[p].found \subseteq Models
        /\ \A m \in job[p].found : Owns(held, n, m)
    BY JobFields DEF JobsOK, GoodJob, Works, HasKey, ReplaceForKey, At
  <1> QED
    BY <1>1, <1>2 DEF StoreOK, HeldGrows, Exists, Enabled

LEMMA StoreKept ==
  ASSUME StoreOK, UNCHANGED storeVars
  PROVE  HeldGrows /\ StoreOK'
  BY DEF StoreOK, HeldGrows, Exists, Enabled, storeVars

(* Only the inserts, updates and deletions of the admin handlers and the   *)
(* probe's ReplaceForKey change the store.                                 *)
LEMMA StoreStep ==
  ASSUME StoreOK, JobsOK, [Next]_registryVars
  PROVE  HeldGrows /\ StoreOK'
  <1>1. ASSUME NEW p \in Procs, Begin(p) PROVE HeldGrows /\ StoreOK'
    <2> p \in Workers
      BY DEF Workers
    <2>1. ASSUME NEW body \in Posts, Create(p, body.enabled, body.cred)
          PROVE  HeldGrows /\ StoreOK'
      BY <2>1, CreateStore, RegistryAssumption
    <2>2. ASSUME NEW k \in Ids, Delete(p, k) PROVE HeldGrows /\ StoreOK'
      BY <2>2, DeleteStore
    <2>3. ASSUME (\E k \in Ids, q \in Puts : UpdateRead(p, k, q))
                   \/ (\E k \in Ids : Probe(p, k)) \/ List(p)
          PROVE  HeldGrows /\ StoreOK'
      BY <2>3, StoreKept DEF UpdateRead, Probe, List
    <2> QED
      BY <1>1, <2>1, <2>2, <2>3 DEF Begin
  <1>2. ASSUME NEW p \in Workers, Step(p) PROVE HeldGrows /\ StoreOK'
    <2>1. CASE UpdateWrite(p)
      BY <2>1, UpdateWriteStore
    <2>2. CASE ReplaceForKey(p)
      BY <2>2, ReplaceStore
    <2>3. CASE EnsureState(p) \/ Reread(p) \/ Fetch(p) \/ ListModels(p) \/ ListFails(p)
      BY <2>3, StoreKept DEF EnsureState, Reread, Fetch, ListModels, ListFails
    <2>4. CASE ProbeFailing(p) \/ MarkProbeSuccess(p) \/ ReadKeys(p) \/ ReadModels(p) \/ Swap(p)
      BY <2>4, StoreKept DEF ProbeFailing, MarkProbeSuccess, ReadKeys, ReadModels, Swap
    <2>5. CASE Report(p) \/ ReportState(p) \/ KeepWithModels(p) \/ ListState(p)
                 \/ ListEnabled(p) \/ ProbeNext(p)
      BY <2>5, StoreKept
         DEF Report, ReportState, KeepWithModels, ListState, ListEnabled, ProbeNext
    <2> QED
      BY <1>2, <2>1, <2>2, <2>3, <2>4, <2>5 DEF Step
  <1>3. ASSUME (\E p \in Procs : Hangup(p)) \/ Restart \/ Tick PROVE HeldGrows /\ StoreOK'
    BY <1>3, StoreKept DEF Hangup, Restart, Tick
  <1>4. CASE UNCHANGED registryVars
    BY <1>4, StoreKept DEF registryVars, storeVars
  <1> QED
    BY <1>1, <1>2, <1>3, <1>4 DEF Next, Proceed

(* The catalog changes by a swap, whose job read what keys own, and at the *)
(* start, which reads what they own now.                                   *)
LEMMA CatalogStep ==
  ASSUME StoreOK, JobsOK, CatalogOK, [Next]_registryVars
  PROVE  CatalogOK'
  <1>1. HeldGrows
    BY StoreStep
  <1>2. ASSUME catalog' = catalog, boots' = boots PROVE CatalogOK'
    <2>1. \A m \in Models : \A k \in catalog[m] : k \in Ids
      BY DEF CatalogOK
    <2> QED
      BY <1>1, <1>2, <2>1 DEF CatalogOK, CatalogOwnership, HeldGrows
  <1>3. ASSUME NEW p \in Procs, Begin(p) PROVE CatalogOK'
    BY <1>2, <1>3 DEF Begin, Create, UpdateRead, Delete, Probe, List
  <1>4. ASSUME NEW p \in Workers, Step(p) PROVE CatalogOK'
    <2>1. CASE Swap(p)
      <3>1. /\ catalog' = job[p].next /\ boots' = boots /\ held' = held
            /\ job[p].next \in [Models -> SUBSET Ids]
            /\ \A m \in Models : \A k \in job[p].next[m] : Owns(held, k, m)
        BY <2>1, JobFields DEF Swap, storeVars, JobsOK, GoodJob
      <3> QED
        BY <3>1 DEF CatalogOK, CatalogOwnership, Owns
    <2>2. CASE EnsureState(p) \/ Reread(p) \/ Fetch(p) \/ ListModels(p) \/ ListFails(p)
                 \/ UpdateWrite(p) \/ ReplaceForKey(p)
      BY <1>2, <2>2 DEF EnsureState, Reread, Fetch, ListModels, ListFails, UpdateWrite,
                        ReplaceForKey
    <2>3. CASE ProbeFailing(p) \/ MarkProbeSuccess(p) \/ ReadKeys(p) \/ ReadModels(p)
      BY <1>2, <2>3 DEF ProbeFailing, MarkProbeSuccess, ReadKeys, ReadModels
    <2>4. CASE Report(p) \/ ReportState(p) \/ KeepWithModels(p) \/ ListState(p)
                 \/ ListEnabled(p) \/ ProbeNext(p)
      BY <1>2, <2>4 DEF Report, ReportState, KeepWithModels, ListState, ListEnabled, ProbeNext
    <2> QED
      BY <1>4, <2>1, <2>2, <2>3, <2>4 DEF Step
  <1>5. CASE Restart
    <2>1. boots' \in 1 .. MaxBoots
      BY <1>5, RegistryAssumption DEF Restart, CatalogOK
    <2>2. catalog' = Current /\ held' = held
      BY <1>5 DEF Restart, storeVars
    <2>3. /\ Current \in [Models -> SUBSET Ids]
          /\ \A m \in Models : \A k \in Current[m] : Owns(held, k, m)
      BY DeriveOwned DEF Current, EnabledKeys
    <2> QED
      BY <2>1, <2>2, <2>3 DEF CatalogOK, CatalogOwnership, Owns
  <1>6. ASSUME (\E p \in Procs : Hangup(p)) \/ Tick PROVE CatalogOK'
    BY <1>2, <1>6 DEF Hangup, Tick
  <1>7. CASE UNCHANGED registryVars
    BY <1>2, <1>7 DEF registryVars
  <1> QED
    BY <1>3, <1>4, <1>5, <1>6, <1>7 DEF Next, Proceed

-----------------------------------------------------------------------------
(* Jobs and the calls of KeyHealth they make.                              *)
LEMMA JobsKept ==
  ASSUME JobsOK, StoreOK, HeldGrows, NEW p \in Workers, NEW pcs, JobMoves(p, pcs)
  PROVE  JobsOK'
  <1>1. PICK j \in Job : GoodJob(held', j) /\ job' = [job EXCEPT ![p] = j]
    BY DEF JobMoves
  <1>2. job' \in [Workers -> Job]
    BY <1>1 DEF JobsOK
  <1>3. ASSUME NEW q \in Workers PROVE GoodJob(held', job'[q])
    <2>1. GoodJob(held', job[q])
      BY GoodStays DEF JobsOK, StoreOK, HeldGrows
    <2> QED
      BY <1>1, <2>1 DEF JobsOK
  <1> QED
    BY <1>2, <1>3 DEF JobsOK

LEMMA SameJobs ==
  ASSUME JobsOK, UNCHANGED job, HeldGrows, StoreOK
  PROVE  JobsOK'
  <1>1. ASSUME NEW q \in Workers PROVE GoodJob(held', job[q])
    BY GoodStays DEF JobsOK, StoreOK, HeldGrows
  <1> QED
    BY <1>1 DEF JobsOK

(* A step of p that opens or ends no call.                                 *)
Plain(p) == JobMoves(p, Calm) /\ mark' = mark /\ job[p].pc \in Calm

LEMMA PlainMarks ==
  ASSUME JobsOK, MarksOK, NEW p \in Workers, Plain(p)
  PROVE  MarksOK'
  <1>1. PICK j \in Job : j.pc \in Calm /\ job' = [job EXCEPT ![p] = j]
    BY DEF Plain, JobMoves
  <1>2. job'[p] = j /\ \A q \in Workers \ {p} : job'[q] = job[q]
    BY <1>1 DEF JobsOK
  <1>3. mark' = mark /\ job[p].pc \in Calm /\ j.pc \in Calm
    BY <1>1 DEF Plain
  <1> QED
    BY <1>2, <1>3 DEF MarksOK, Calm

LEMMA BeginPlain ==
  ASSUME JobsOK, StoreOK, NEW p \in Workers, Begin(p)
  PROVE  Plain(p)
  <1>1. job[p].pc = "idle" /\ mark' = mark
    BY DEF Begin, Create, UpdateRead, Delete, Probe, List, At, healthVars, H!DeleteRow
  <1>2. JobMoves(p, Calm)
    BY CreateMoves, UpdateReadMoves, DeleteMoves, ProbeMoves, ListMoves DEF Begin
  <1> QED
    BY <1>1, <1>2 DEF Plain, Calm, Pcs

(* The steps of a handler that make no MarkProbe call.                     *)
PlainStep(p) ==
    \/ EnsureState(p)   \/ UpdateWrite(p)  \/ Reread(p)
    \/ Fetch(p)         \/ ListModels(p)   \/ ReplaceForKey(p)
    \/ ReadKeys(p)      \/ ReadModels(p)   \/ Swap(p)
    \/ Report(p)        \/ ReportState(p)
    \/ KeepWithModels(p) \/ ListState(p)
    \/ ListEnabled(p)   \/ ProbeNext(p)

LEMMA StepPlain ==
  ASSUME JobsOK, StoreOK, HeldGrows, NEW p \in Workers, PlainStep(p)
  PROVE  Plain(p)
  <1>1. mark' = mark
    BY DEF PlainStep, EnsureState, UpdateWrite, Reread, Fetch, ListModels, ReplaceForKey,
           ReadKeys, ReadModels, Swap, Report, ReportState, KeepWithModels, ListState,
           ListEnabled, ProbeNext, healthVars, H!Ensure
  <1>2. job[p].pc \in Calm
    BY DEF PlainStep, EnsureState, UpdateWrite, Reread, Fetch, ListModels, ReplaceForKey,
           ReadKeys, ReadModels, Swap, Report, ReportState, KeepWithModels, ListState,
           ListEnabled, ProbeNext, At, Calm, Pcs
  <1>3. \A pc \in Pcs \ {"write", "list", "replace"} : HasKey(job[p]) /\ Goto(p, pc)
                                                          => JobMoves(p, {pc})
    BY GotoMoves DEF StoreOK, HeldGrows
  <1>4. \A pc \in Calm : JobMoves(p, {pc}) => JobMoves(p, Calm)
    BY DEF JobMoves
  <1>5. \A pc \in Calm \ {"write", "list", "replace"} : HasKey(job[p]) /\ Goto(p, pc)
                                                          => JobMoves(p, Calm)
    BY <1>3, <1>4 DEF Calm
  <1> SUFFICES JobMoves(p, Calm)
    BY <1>1, <1>2 DEF Plain
  <1>6. CASE EnsureState(p)
    BY <1>5, <1>6 DEF EnsureState, At, HasKey, Works, Calm, Pcs
  <1>7. CASE UpdateWrite(p)
    <2>1. HasKey(job[p]) /\ (Finish(p) \/ Goto(p, "reread"))
      BY <1>7 DEF UpdateWrite, At, HasKey, Works
    <2> QED
      BY <1>5, <2>1, FinishMoves DEF Calm, Pcs
  <1>8. CASE Report(p)
    <2>1. HasKey(job[p]) /\ (Finish(p) \/ Goto(p, "state"))
      BY <1>8 DEF Report, At, HasKey, Works
    <2> QED
      BY <1>5, <2>1, FinishMoves DEF Calm, Pcs
  <1>9. CASE Swap(p)
    <2>1. HasKey(job[p]) /\ AfterProbe(p, TRUE) /\ held' = held
      BY <1>9 DEF Swap, At, HasKey, Works, storeVars
    <2> QED
      BY <2>1, AfterProbeMoves
  <1>10. CASE ReportState(p)
    BY <1>10, FinishMoves DEF ReportState
  <1>11. CASE Reread(p) \/ Fetch(p) \/ ListModels(p) \/ ReplaceForKey(p)
    BY <1>11, RereadMoves, FetchMoves, ListModelsMoves, ReplaceMoves
  <1>12. CASE ReadKeys(p) \/ ReadModels(p) \/ KeepWithModels(p) \/ ListState(p)
    BY <1>12, ReadKeysMoves, ReadModelsMoves, KeepWithModelsMoves, ListStateMoves
  <1>13. CASE ListEnabled(p) \/ ProbeNext(p)
    BY <1>13, ListEnabledMoves, ProbeNextMoves
  <1> QED
    BY <1>6, <1>7, <1>8, <1>9, <1>10, <1>11, <1>12, <1>13 DEF PlainStep

(* The steps that make a MarkProbe call: p opens or ends one as it goes to *)
(* or leaves the place where it waits for it.                              *)
LEMMA CallMarks ==
  ASSUME JobsOK, MarksOK, H!TypeOK, NEW p \in Workers, NEW pcs, JobMoves(p, pcs), NEW c,
         mark' = [mark EXCEPT ![p] = c],
         \/ pcs = Calm /\ c = H!NoCall
         \/ pcs \subseteq {"marking", "failing"} /\ c.pc # "idle"
  PROVE  MarksOK'
  <1>1. PICK j \in Job : j.pc \in pcs /\ job' = [job EXCEPT ![p] = j]
    BY DEF JobMoves
  <1>2. job'[p] = j /\ \A q \in Workers \ {p} : job'[q] = job[q]
    BY <1>1 DEF JobsOK
  <1>3. mark'[p] = c /\ \A q \in Workers \ {p} : mark'[q] = mark[q]
    BY DEF H!TypeOK
  <1>4. (j.pc \in {"marking", "failing"} <=> c.pc # "idle") /\ (c.pc = "idle" => c = H!NoCall)
    BY <1>1 DEF Calm, H!NoCall
  <1>5. ASSUME NEW q \in Workers
        PROVE  /\ job'[q].pc \in {"marking", "failing"} <=> mark'[q].pc # "idle"
               /\ mark'[q].pc = "idle" => mark'[q] = H!NoCall
    BY <1>2, <1>3, <1>4, <1>5 DEF MarksOK
  <1> QED
    BY <1>5 DEF MarksOK

LEMMA ListFailsStep ==
  ASSUME Inv, NEW p \in Workers, ListFails(p)
  PROVE  (\E pcs : JobMoves(p, pcs)) /\ MarksOK' /\ H!Next
  <1>1. HasKey(job[p]) /\ job[p].key \in Ids /\ job[p].pc = "list"
    BY DEF ListFails, At, HasKey, Works, Inv, JobsOK, GoodJob
  <1>2. HeldGrows /\ StoreOK
    BY StoreKept DEF Inv, ListFails
  <1>3. JobMoves(p, {"failing"})
    BY <1>1, <1>2, GotoMoves DEF ListFails, HeldGrows, StoreOK, Inv, Pcs
  <1>4. H!MarkBegin(p, job[p].key, "failure")
    BY DEF ListFails
  <1>5. mark' = [mark EXCEPT ![p] = H!Opened(job[p].key, "failure")]
    BY <1>4 DEF H!MarkBegin
  <1>6. H!Opened(job[p].key, "failure").pc # "idle"
    BY DEF H!Opened
  <1>7. MarksOK'
    BY <1>3, <1>5, <1>6, CallMarks DEF Inv
  <1>8. H!Next
    BY <1>1, <1>4 DEF H!Next, H!Report, H!Outcomes
  <1> QED
    BY <1>3, <1>7, <1>8

LEMMA MarkProbeSuccessStep ==
  ASSUME Inv, NEW p \in Workers, MarkProbeSuccess(p)
  PROVE  (\E pcs : JobMoves(p, pcs)) /\ MarksOK' /\ H!Next
  <1>1. HasKey(job[p]) /\ job[p].key \in Ids
    BY DEF MarkProbeSuccess, At, HasKey, Works, Inv, JobsOK, GoodJob
  <1>2. HeldGrows /\ StoreOK
    BY StoreKept DEF Inv, MarkProbeSuccess
  <1>3. \A pc \in {"marking", "rkeys"} : Goto(p, pc) => JobMoves(p, {pc})
    BY <1>1, <1>2, GotoMoves DEF HeldGrows, StoreOK, Inv, Pcs
  <1>4. CASE H!MarkBegin(p, job[p].key, "success") /\ Goto(p, "marking")
    <2>1. JobMoves(p, {"marking"})
      BY <1>3, <1>4
    <2>2. mark' = [mark EXCEPT ![p] = H!Opened(job[p].key, "success")]
      BY <1>4 DEF H!MarkBegin
    <2>3. H!Opened(job[p].key, "success").pc # "idle"
      BY DEF H!Opened
    <2>4. MarksOK'
      BY <2>1, <2>2, <2>3, CallMarks DEF Inv
    <2>5. H!Next
      BY <1>1, <1>4 DEF H!Next, H!Report, H!Outcomes
    <2> QED
      BY <2>1, <2>4, <2>5
  <1>5. CASE H!MarkReset(p) /\ Goto(p, "rkeys")
    <2>1. JobMoves(p, Calm)
      BY <1>3, <1>5 DEF JobMoves, Calm, Pcs
    <2>2. mark' = [mark EXCEPT ![p] = H!NoCall]
      BY <1>5 DEF H!MarkReset
    <2>3. MarksOK'
      BY <2>1, <2>2, CallMarks DEF Inv
    <2>4. H!Next
      BY <1>5 DEF H!Next, H!Proceed
    <2> QED
      BY <2>1, <2>3, <2>4
  <1> QED
    BY <1>4, <1>5 DEF MarkProbeSuccess

(* The update of MarkProbeFailure ends the probe when it is done.          *)
LEMMA ProbeFailingStep ==
  ASSUME Inv, NEW p \in Workers, ProbeFailing(p)
  PROVE  ((\E pcs : JobMoves(p, pcs)) \/ UNCHANGED job) /\ MarksOK' /\ H!Next
  <1>1. HasKey(job[p]) /\ job[p].pc = "failing" /\ mark[p].pc # "idle"
    BY DEF ProbeFailing, At, HasKey, Works, Inv, MarksOK
  <1>2. H!MarkRecheck(p) \/ H!MarkRead(p) \/ H!MarkWrite(p)
    BY DEF ProbeFailing
  <1>3. H!Next
    BY <1>2 DEF H!Next, H!Proceed
  <1>4. PICK c : mark' = [mark EXCEPT ![p] = c] /\ (c.pc # "idle" \/ c = H!NoCall)
    <2>1. CASE H!MarkRecheck(p)
      <3>1. mark' = [mark EXCEPT ![p] = [mark[p] EXCEPT !.pc = "again"]]
        BY <2>1 DEF H!MarkRecheck
      <3>2. [mark[p] EXCEPT !.pc = "again"].pc # "idle"
        BY DEF Inv, H!TypeOK, H!Call
      <3> QED
        BY <3>1, <3>2
    <2>2. CASE H!MarkRead(p)
      <3> DEFINE k == mark[p].key
                 c == IF H!HasRow(k) THEN H!HasSeen(k, keyState[k].failures, now) ELSE H!NoCall
      <3>1. mark' = [mark EXCEPT ![p] = c]
        BY <2>2 DEF H!MarkRead
      <3>2. H!HasSeen(k, keyState[k].failures, now).pc = "read"
        BY DEF H!HasSeen
      <3> QED
        BY <3>1, <3>2
    <2>3. CASE H!MarkWrite(p)
      BY <2>3 DEF H!MarkWrite
    <2> QED
      BY <1>2, <2>1, <2>2, <2>3
  <1>5. mark'[p] = c
    BY <1>4 DEF Inv, H!TypeOK
  <1>6. CASE c = H!NoCall
    <2>1. AfterProbe(p, FALSE) /\ held' = held
      BY <1>5, <1>6 DEF ProbeFailing, storeVars
    <2>2. JobMoves(p, Calm)
      BY <1>1, <2>1, AfterProbeMoves DEF Inv
    <2>3. MarksOK'
      BY <1>4, <1>6, <2>2, CallMarks DEF Inv
    <2> QED
      BY <1>3, <2>2, <2>3
  <1>7. CASE c # H!NoCall
    <2>1. job' = job
      BY <1>5, <1>7 DEF ProbeFailing
    <2>2. \A q \in Workers \ {p} : mark'[q] = mark[q]
      BY <1>4 DEF Inv, H!TypeOK
    <2>3. MarksOK'
      BY <1>1, <1>4, <1>5, <1>7, <2>1, <2>2 DEF Inv, MarksOK
    <2> QED
      BY <1>3, <2>1, <2>3
  <1> QED
    BY <1>6, <1>7

(* A client that leaves aborts the call its request has open, if any.      *)
LEMMA HangupStep ==
  ASSUME Inv, NEW p \in Workers, Hangup(p)
  PROVE  JobMoves(p, Calm) /\ MarksOK' /\ [H!Next]_healthVars
  <1>1. mark' = [mark EXCEPT ![p] = H!NoCall] /\ UNCHANGED <<keyState, now, recorded>>
    BY DEF Hangup
  <1>2. JobMoves(p, Calm)
    BY FinishMoves DEF Hangup, Inv
  <1>3. MarksOK'
    BY <1>1, <1>2, CallMarks DEF Inv
  <1>4. ASSUME mark[p].pc # "idle" PROVE H!Next
    BY <1>1, <1>4 DEF H!MarkAbort, H!Next, H!Proceed
  <1>5. ASSUME mark[p].pc = "idle" PROVE UNCHANGED healthVars
    <2>1. mark[p] = H!NoCall /\ mark \in [Workers -> H!Call]
      BY <1>5 DEF Inv, MarksOK, H!TypeOK
    <2>2. mark' = mark
      BY <1>1, <2>1
    <2> QED
      BY <1>1, <2>2 DEF healthVars
  <1> QED
    BY <1>2, <1>3, <1>4, <1>5

LEMMA BootJobsGood ==
  /\ BootJobs \in [Workers -> Job]
  /\ \A h : \A p \in Workers : GoodJob(h, BootJobs[p])
  /\ \A p \in Workers : BootJobs[p].pc \in Calm
  <1> DEFINE j == [NoJob EXCEPT !.op = "startup", !.pc = "list_enabled"]
  <1>1. NoJob.pc = "idle"
    BY DEF NoJob
  <1>2. j.op = "startup" /\ j.pc = "list_enabled" /\ j.next = NoModels /\ j.todo = NoTodo
    BY DEF NoJob
  <1>3. j \in Job /\ j.pc = "list_enabled"
    BY EmptyJob DEF Job, Ops, Pcs
  <1>4. ASSUME NEW h PROVE GoodJob(h, j)
    <2> HIDE DEF j
    <2> QED
      BY <1>2, NothingIn DEF GoodJob, Works, HasKey
  <1>5. \A p \in Workers : BootJobs[p] = IF p = Startup THEN j ELSE NoJob
    BY DEF BootJobs
  <1>6. BootJobs \in [Workers -> Job]
    BY <1>3, EmptyJob DEF BootJobs
  <1> HIDE DEF j
  <1> QED
    BY <1>1, <1>3, <1>4, <1>5, <1>6, NoJobGood DEF Calm, Pcs

LEMMA RestartStep ==
  ASSUME Inv, Restart
  PROVE  JobsOK' /\ MarksOK' /\ H!Next
  <1>1. job' = BootJobs /\ mark' = [p \in Workers |-> H!NoCall]
    BY DEF Restart
  <1>2. JobsOK'
    BY <1>1, BootJobsGood DEF JobsOK
  <1>3. H!NoCall.pc = "idle"
    BY DEF H!NoCall
  <1>4. MarksOK'
    BY <1>1, <1>3, BootJobsGood DEF MarksOK, Calm
  <1>5. H!Next
    BY DEF Restart, H!Crash, H!Next, H!Proceed
  <1> QED
    BY <1>2, <1>4, <1>5

LEMMA TickStep ==
  ASSUME Inv, Tick
  PROVE  job' = job /\ MarksOK' /\ H!Next
  <1>1. job' = job /\ H!Tick
    BY DEF Tick
  <1>2. mark' = mark
    BY <1>1 DEF H!Tick
  <1> QED
    BY <1>1, <1>2 DEF Inv, MarksOK, H!Next, H!Proceed

(* The steps without a MarkProbe call: what they do to health is to ensure *)
(* a row, or to delete one.                                                *)
LEMMA PlainHealth ==
  ASSUME Inv, NEW p \in Workers, Begin(p) \/ PlainStep(p)
  PROVE  [H!Next]_healthVars
  <1>1. ASSUME NEW k \in Ids, Delete(p, k) PROVE H!Next
    BY <1>1 DEF Delete, H!Next, H!Proceed
  <1>2. CASE EnsureState(p) \/ ReportState(p)
    <2>1. job[p].key \in Ids
      BY <1>2 DEF EnsureState, ReportState, At, HasKey, Works, Inv, JobsOK, GoodJob
    <2> QED
      BY <1>2, <2>1 DEF EnsureState, ReportState, H!Next, H!Proceed
  <1>3. CASE ListState(p)
    BY <1>3, ListStateMoves DEF Inv, H!Next, H!Proceed
  <1>4. CASE \/ \E body \in Posts : Create(p, body.enabled, body.cred)
             \/ \E k \in Ids, q \in Puts : UpdateRead(p, k, q)
             \/ \E k \in Ids : Probe(p, k)
             \/ List(p)
    BY <1>4 DEF Create, UpdateRead, Probe, List
  <1>5. CASE UpdateWrite(p) \/ Reread(p) \/ Fetch(p) \/ ListModels(p) \/ ReplaceForKey(p)
               \/ ReadKeys(p) \/ ReadModels(p)
    BY <1>5 DEF UpdateWrite, Reread, Fetch, ListModels, ReplaceForKey, ReadKeys, ReadModels
  <1>6. CASE Swap(p) \/ Report(p) \/ KeepWithModels(p) \/ ListEnabled(p) \/ ProbeNext(p)
    BY <1>6 DEF Swap, Report, KeepWithModels, ListEnabled, ProbeNext
  <1> QED
    BY <1>1, <1>2, <1>3, <1>4, <1>5, <1>6 DEF Begin, PlainStep

(* Every step keeps the jobs and their calls together, and is a step of    *)
(* KeyHealth or leaves it alone.                                           *)
LEMMA JobsStep ==
  ASSUME Inv, [Next]_registryVars
  PROVE  JobsOK' /\ MarksOK' /\ [H!Next]_healthVars
  <1>1. HeldGrows /\ JobsOK /\ StoreOK /\ MarksOK
    BY StoreStep DEF Inv
  <1>2. ASSUME NEW p \in Workers, NEW pcs, JobMoves(p, pcs) PROVE JobsOK'
    BY <1>1, <1>2, JobsKept
  <1>3. ASSUME job' = job PROVE JobsOK'
    BY <1>1, <1>3, SameJobs
  <1>4. ASSUME NEW p \in Workers, Begin(p) \/ PlainStep(p)
        PROVE  JobsOK' /\ MarksOK' /\ [H!Next]_healthVars
    <2>1. Plain(p)
      BY <1>1, <1>4, BeginPlain, StepPlain
    <2>2. JobsOK'
      BY <1>2, <2>1 DEF Plain
    <2> QED
      BY <1>1, <1>4, <2>1, <2>2, PlainMarks, PlainHealth
  <1>5. ASSUME NEW p \in Workers, Step(p)
        PROVE  JobsOK' /\ MarksOK' /\ [H!Next]_healthVars
    <2>1. CASE ListFails(p)
      BY <1>2, <2>1, ListFailsStep
    <2>2. CASE MarkProbeSuccess(p)
      BY <1>2, <2>2, MarkProbeSuccessStep
    <2>3. CASE ProbeFailing(p)
      BY <1>2, <1>3, <2>3, ProbeFailingStep
    <2>4. CASE PlainStep(p)
      BY <1>4, <2>4
    <2> QED
      BY <1>5, <2>1, <2>2, <2>3, <2>4 DEF Step, PlainStep
  <1>6. ASSUME NEW p \in Procs, Hangup(p)
        PROVE  JobsOK' /\ MarksOK' /\ [H!Next]_healthVars
    <2>1. p \in Workers
      BY DEF Workers
    <2> QED
      BY <1>2, <1>6, <2>1, HangupStep
  <1>7. CASE Restart
    BY <1>7, RestartStep
  <1>8. CASE Tick
    BY <1>3, <1>8, TickStep
  <1>9. CASE UNCHANGED registryVars
    <2>1. job' = job /\ mark' = mark /\ UNCHANGED healthVars
      BY <1>9 DEF registryVars, healthVars
    <2> QED
      BY <1>1, <1>3, <2>1 DEF MarksOK
  <1>10. \A p \in Procs : p \in Workers
    BY DEF Workers
  <1> QED
    BY <1>4, <1>5, <1>6, <1>7, <1>8, <1>9, <1>10 DEF Next, Proceed

LEMMA InvInit == Init => Inv
  <1> SUFFICES ASSUME Init PROVE Inv
    OBVIOUS
  <1>1. JobsOK
    BY BootJobsGood DEF Init, JobsOK
  <1>2. StoreOK
    <2>1. \A k \in Ids : ~NoTodo[k].exists /\ ~NoTodo[k].enabled
      BY NothingIn DEF NoTodo, AbsentKey
    <2> QED
      BY <2>1, EmptyJob, RegistryAssumption DEF Init, StoreOK, Exists, Enabled
  <1>3. CatalogOK
    BY NothingIn, EmptyJob, RegistryAssumption DEF Init, CatalogOK, CatalogOwnership
  <1>4. H!TypeOK
    <2>1. P!Init
      BY DEF Init, H!Init, P!Init, H!AbsentRow, P!AbsentRow, H!NoCall, P!NoCall, H!NoKey, P!NoKey
    <2>2. P!TypeOK
      BY <2>1, P!TypeInit, HealthAssumption, IdsAreIds
    <2> QED
      BY <2>2, SameTypes
  <1>5. MarksOK
    <2>1. H!NoCall.pc = "idle" /\ mark = [p \in Workers |-> H!NoCall] /\ job = BootJobs
      BY DEF Init, H!Init, H!NoCall
    <2> QED
      BY <2>1, BootJobsGood DEF MarksOK, Calm
  <1> QED
    BY <1>1, <1>2, <1>3, <1>4, <1>5 DEF Inv

LEMMA InvStep == Inv /\ [Next]_registryVars => Inv'
  <1> SUFFICES ASSUME Inv, [Next]_registryVars PROVE Inv'
    OBVIOUS
  <1>1. StoreOK' /\ CatalogOK'
    BY StoreStep, CatalogStep DEF Inv
  <1>2. JobsOK' /\ MarksOK'
    BY JobsStep
  <1>3. H!TypeOK'
    BY JobsStep, HealthTypeStep DEF Inv
  <1> QED
    BY <1>1, <1>2, <1>3 DEF Inv

LEMMA Invariant == Spec => []Inv
  BY InvInit, InvStep, PTL DEF Spec

(* For any number of keys, handlers, clients that leave and starts of the  *)
(* process, however they overlap, the catalog lists a key for a model only *)
(* if a credential that this very key has had offers the model.            *)
THEOREM CatalogOwned == Spec => []CatalogOwnership
  BY Invariant, InvTells, PTL

(* The handlers and the probe use the health rows by the calls of          *)
(* KeyHealth alone: the registry implements it.                            *)
THEOREM ImplementsKeyHealth == Spec => H!Spec
  <1>1. Init => H!Init
    BY DEF Init
  <1>2. Inv /\ [Next]_registryVars => [H!Next]_(H!healthVars)
    BY JobsStep DEF healthVars, H!healthVars
  <1> QED
    BY <1>1, <1>2, Invariant, PTL DEF Spec, H!Spec

(* The calls and handlers as the gateway sees them: the health rows, and   *)
(* the ids of keys that exist or are still to be handed out.               *)
Seen == {k \in Ids : k > lastId \/ Exists(k)}

LEMMA ObservesNothing == G!Observe
  BY DEF G!Observe, Unseen

LEMMA SeesNoStep ==
  ASSUME UNCHANGED healthVars, Seen' = Seen
  PROVE  UNCHANGED G!gatewayVars
  BY DEF G!gatewayVars, healthVars, Seen, Unseen

LEMMA SameRows ==
  /\ \A k \in Ids : (H!Ensure(k) <=> G!H!Ensure(k)) /\ (H!DeleteRow(k) <=> G!H!DeleteRow(k))
  /\ H!Tick <=> G!H!Tick
  /\ H!Init <=> G!H!Init
  /\ H!NoCall = G!H!NoCall
  BY DEF H!Ensure, G!H!Ensure, H!Ensured, G!H!Ensured, H!HasRow, G!H!HasRow,
         H!HealthyRow, G!H!HealthyRow, H!DeleteRow, G!H!DeleteRow, H!AbsentRow, G!H!AbsentRow,
         H!Tick, G!H!Tick, H!Init, G!H!Init, H!NoCall, G!H!NoCall, H!NoKey, G!H!NoKey

LEMMA SameCalls ==
  ASSUME NEW p \in Workers
  PROVE  /\ \A k \in Ids, o \in H!Outcomes :
               /\ o \in G!H!Outcomes
               /\ H!MarkBegin(p, k, o) <=> G!H!MarkBegin(p, k, o)
               /\ H!MayReport(k, o) <=> G!H!MayReport(k, o)
         /\ H!MarkReset(p) <=> G!H!MarkReset(p)
         /\ H!MarkRecheck(p) <=> G!H!MarkRecheck(p)
         /\ H!MarkRead(p) <=> G!H!MarkRead(p)
         /\ H!MarkWrite(p) <=> G!H!MarkWrite(p)
         /\ H!MarkAbort(p) <=> G!H!MarkAbort(p)
  BY DEF H!Outcomes, G!H!Outcomes, H!MarkBegin, G!H!MarkBegin, H!MayReport, G!H!MayReport,
         H!MarkReset, G!H!MarkReset, H!MarkRecheck, G!H!MarkRecheck, H!MarkRead, G!H!MarkRead,
         H!MarkWrite, G!H!MarkWrite, H!MarkAbort, G!H!MarkAbort, H!Ensured, G!H!Ensured,
         H!HasRow, G!H!HasRow, H!Opened, G!H!Opened, H!HasSeen, G!H!HasSeen,
         H!NoCall, G!H!NoCall, H!NoKey, G!H!NoKey, H!HealthyRow, G!H!HealthyRow,
         H!FailedRow, G!H!FailedRow, H!FailureCooldown, G!H!FailureCooldown,
         H!Doublings, G!H!Doublings

(* A call of a health row, by whomever.                                    *)
LEMMA SeesCall ==
  ASSUME Seen' = Seen, NEW p \in Workers,
         \/ \E k \in Ids, o \in H!Outcomes : H!MayReport(k, o) /\ H!MarkBegin(p, k, o)
         \/ H!MarkReset(p) \/ H!MarkRecheck(p) \/ H!MarkRead(p) \/ H!MarkWrite(p)
         \/ H!MarkAbort(p) \/ \E k \in Ids : H!Ensure(k)
  PROVE  G!Next
  <1>1. \/ \E k \in Ids, o \in G!H!Outcomes : G!H!MayReport(k, o) /\ G!H!MarkBegin(p, k, o)
        \/ G!H!MarkReset(p) \/ G!H!MarkRecheck(p) \/ G!H!MarkRead(p) \/ G!H!MarkWrite(p)
        \/ G!H!MarkAbort(p) \/ \E k \in Ids : G!H!Ensure(k)
    BY SameRows, SameCalls
  <1>2. G!ProbeMark(p)
    BY <1>1, ObservesNothing DEF G!ProbeMark, Seen, Unseen, G!requestVars
  <1> QED
    BY <1>2 DEF G!Next, G!World

LEMMA CreateSeen ==
  ASSUME StoreOK, NEW p \in Workers, NEW e, NEW c, Create(p, e, c)
  PROVE  UNCHANGED healthVars /\ Seen' = Seen
  <1>1. FreshId \in Ids /\ FreshId = lastId + 1 /\ lastId \in Nat
    BY RegistryAssumption DEF Create, FreshId, Ids, StoreOK
  <1> PICK n \in Ids : n = FreshId
    BY <1>1
  <1>2. /\ n = lastId + 1 /\ lastId' = n /\ keys \in [Ids -> Key]
        /\ keys' = [keys EXCEPT ![n] = Row(e, c)]
    BY <1>1 DEF Create, StoreOK
  <1>3. Exists(n)' /\ \A k \in Ids \ {n} : Exists(k)' = Exists(k)
    BY <1>2 DEF Exists, Row
  <1>4. ASSUME NEW k \in Ids
        PROVE  (k > lastId' \/ Exists(k)') <=> (k > lastId \/ Exists(k))
    <2>1. k \in Nat
      BY IdsAreIds
    <2>2. CASE k = n
      BY <1>1, <1>2, <1>3, <2>2
    <2>3. CASE k # n
      BY <1>1, <1>2, <1>3, <2>1, <2>3
    <2> QED
      BY <2>2, <2>3
  <1>5. Seen' = Seen
    BY <1>4 DEF Seen
  <1> QED
    BY <1>5 DEF Create

LEMMA UpdateWriteSeen ==
  ASSUME JobsOK, StoreOK, NEW p \in Workers, UpdateWrite(p)
  PROVE  UNCHANGED healthVars /\ Seen' = Seen
  <1> DEFINE n == job[p].key
  <1>1. n \in Ids /\ job[p].row.exists
    <2>1. GoodJob(held, job[p]) /\ job[p].pc = "write"
      BY DEF UpdateWrite, At, JobsOK
    <2> QED
      BY <2>1 DEF GoodJob, HasKey, Works
  <1>2. CASE Exists(n)
    <2>1. keys' = [keys EXCEPT ![n] = job[p].row] /\ lastId' = lastId /\ keys \in [Ids -> Key]
      BY <1>2 DEF UpdateWrite, StoreOK
    <2> HIDE DEF n
    <2>2. \A k \in Ids : Exists(k)' <=> Exists(k)
      BY <1>1, <1>2, <2>1 DEF Exists
    <2> QED
      BY <2>1, <2>2 DEF UpdateWrite, Seen
  <1>3. CASE ~Exists(n)
    BY <1>3 DEF UpdateWrite, Seen, Exists
  <1> QED
    BY <1>2, <1>3

(* A key that exists has an id handed out: deleting it takes it away.      *)
LEMMA DeleteSeen ==
  ASSUME StoreOK, NEW p \in Workers, NEW k \in Ids, Delete(p, k)
  PROVE  G!Next
  <1>1. /\ Exists(k) /\ lastId' = lastId /\ lastId \in Nat /\ keys \in [Ids -> Key]
        /\ keys' = [keys EXCEPT ![k] = AbsentKey]
    BY DEF Delete, StoreOK
  <1>2. ~(k > lastId)
    BY <1>1 DEF StoreOK
  <1>3. ~Exists(k)' /\ \A j \in Ids \ {k} : Exists(j)' = Exists(j)
    BY <1>1 DEF Exists, AbsentKey
  <1>4. k \in Seen /\ Seen' = Seen \ {k}
    BY <1>1, <1>2, <1>3 DEF Seen
  <1>5. G!H!DeleteRow(k)
    BY SameRows DEF Delete
  <1>6. G!DeleteKey(k)
    BY <1>4, <1>5, ObservesNothing DEF G!DeleteKey, Seen, Unseen, G!requestVars
  <1> QED
    BY <1>6 DEF G!Next, G!World

LEMMA PlainSeen ==
  ASSUME Inv, NEW p \in Workers, Begin(p) \/ PlainStep(p)
  PROVE  G!Next \/ UNCHANGED G!gatewayVars
  <1>1. ASSUME NEW k \in Ids, Delete(p, k) PROVE G!Next
    BY <1>1, DeleteSeen DEF Inv
  <1>2. CASE EnsureState(p) \/ ReportState(p)
    <2>1. job[p].key \in Ids
      <3>1. GoodJob(held, job[p]) /\ job[p].pc \in {"ensure", "state"}
        BY <1>2 DEF EnsureState, ReportState, At, Inv, JobsOK
      <3> QED
        BY <3>1 DEF GoodJob, HasKey, Works
    <2>2. H!Ensure(job[p].key) /\ Seen' = Seen
      BY <1>2 DEF EnsureState, ReportState, storeVars, Seen, Exists
    <2> QED
      BY <2>1, <2>2, SeesCall
  <1>3. CASE ListState(p)
    <2>1. Seen' = Seen
      BY <1>3 DEF ListState, storeVars, Seen, Exists
    <2> QED
      BY <1>3, <2>1, ListStateMoves, SeesCall, SeesNoStep DEF Inv
  <1>4. CASE \E body \in Posts : Create(p, body.enabled, body.cred)
    BY <1>4, CreateSeen, SeesNoStep DEF Inv
  <1>5. CASE UpdateWrite(p)
    BY <1>5, UpdateWriteSeen, SeesNoStep DEF Inv
  <1>6. CASE (\E k \in Ids, q \in Puts : UpdateRead(p, k, q)) \/ (\E k \in Ids : Probe(p, k))
               \/ List(p)
    <2>1. UNCHANGED healthVars /\ UNCHANGED storeVars
      BY <1>6 DEF UpdateRead, Probe, List
    <2>2. Seen' = Seen
      BY <2>1 DEF storeVars, Seen, Exists
    <2> QED
      BY <2>1, <2>2, SeesNoStep
  <1>7. CASE Reread(p) \/ Fetch(p) \/ ListModels(p) \/ ReplaceForKey(p) \/ ReadKeys(p)
               \/ ReadModels(p)
    <2>1. UNCHANGED healthVars /\ Seen' = Seen
      BY <1>7 DEF Reread, Fetch, ListModels, ReplaceForKey, ReadKeys, ReadModels, storeVars,
                  Seen, Exists
    <2> QED
      BY <2>1, SeesNoStep
  <1>8. CASE Swap(p) \/ Report(p) \/ KeepWithModels(p) \/ ListEnabled(p) \/ ProbeNext(p)
    <2>1. UNCHANGED healthVars /\ UNCHANGED storeVars
      BY <1>8 DEF Swap, Report, KeepWithModels, ListEnabled, ProbeNext
    <2>2. Seen' = Seen
      BY <2>1 DEF storeVars, Seen, Exists
    <2> QED
      BY <2>1, <2>2, SeesNoStep
  <1> QED
    BY <1>1, <1>2, <1>3, <1>4, <1>5, <1>6, <1>7, <1>8 DEF Begin, PlainStep

LEMMA MarkingSeen ==
  ASSUME Inv, NEW p \in Workers, ListFails(p) \/ MarkProbeSuccess(p) \/ ProbeFailing(p)
  PROVE  G!Next
  <1>1. job[p].key \in Ids
    <2>1. GoodJob(held, job[p]) /\ job[p].pc \in {"list", "failing", "mark", "marking"}
      BY DEF ListFails, MarkProbeSuccess, ProbeFailing, At, Inv, JobsOK
    <2> QED
      BY <2>1 DEF GoodJob, HasKey, Works
  <1>2. Seen' = Seen
    BY DEF ListFails, MarkProbeSuccess, ProbeFailing, storeVars, Seen, Exists
  <1>3. H!MayReport(job[p].key, "success")
    BY DEF H!MayReport
  <1>4. "success" \in H!Outcomes /\ "failure" \in H!Outcomes
    BY DEF H!Outcomes
  <1>5. \/ \E k \in Ids, o \in H!Outcomes : H!MayReport(k, o) /\ H!MarkBegin(p, k, o)
        \/ H!MarkReset(p) \/ H!MarkRecheck(p) \/ H!MarkRead(p) \/ H!MarkWrite(p)
    <2>1. CASE ListFails(p)
      BY <1>1, <1>4, <2>1 DEF ListFails
    <2>2. CASE MarkProbeSuccess(p)
      BY <1>1, <1>3, <1>4, <2>2 DEF MarkProbeSuccess
    <2>3. CASE ProbeFailing(p)
      BY <2>3 DEF ProbeFailing
    <2> QED
      BY <2>1, <2>2, <2>3
  <1> QED
    BY <1>2, <1>5, SeesCall

(* A client that leaves ends the call it has open, if any.                 *)
LEMMA HangupSeen ==
  ASSUME Inv, NEW p \in Workers, Hangup(p)
  PROVE  G!Next \/ UNCHANGED G!gatewayVars
  <1>1. /\ mark' = [mark EXCEPT ![p] = H!NoCall] /\ UNCHANGED <<keyState, now, recorded>>
        /\ Seen' = Seen
    BY DEF Hangup, storeVars, Seen, Exists
  <1>2. ASSUME mark[p].pc # "idle" PROVE G!Next
    <2>1. H!MarkAbort(p)
      BY <1>1, <1>2 DEF H!MarkAbort
    <2> QED
      BY <1>1, <2>1, SeesCall
  <1>3. ASSUME mark[p].pc = "idle" PROVE UNCHANGED G!gatewayVars
    <2>1. mark[p] = H!NoCall /\ mark \in [Workers -> H!Call]
      BY <1>3 DEF Inv, MarksOK, H!TypeOK
    <2>2. mark' = mark
      BY <1>1, <2>1
    <2> QED
      BY <1>1, <2>2, SeesNoStep DEF healthVars
  <1> QED
    BY <1>2, <1>3

LEMMA RestartSeen == ASSUME Restart PROVE G!Next
  <1>1. /\ mark' = [p \in Workers |-> H!NoCall] /\ UNCHANGED <<keyState, now, recorded>>
        /\ Seen' = Seen
    BY DEF Restart, storeVars, Seen, Exists
  <1>2. {} \cup Workers = Workers
    OBVIOUS
  <1>3. G!Restart
    BY <1>1, <1>2, ObservesNothing, SameRows DEF G!Restart, G!Zero, Seen, Unseen
  <1> QED
    BY <1>3 DEF G!Next, G!World

LEMMA TickSeen == ASSUME Tick PROVE G!Next
  <1>1. Seen' = Seen /\ G!H!Tick
    BY SameRows DEF Tick, storeVars, Seen, Exists
  <1>2. G!Tick
    BY <1>1, ObservesNothing DEF G!Tick, Seen, Unseen, G!requestVars
  <1> QED
    BY <1>2 DEF G!Next, G!World

LEMMA WorldStep == Inv /\ [Next]_registryVars => [G!Next]_(G!gatewayVars)
  <1> SUFFICES ASSUME Inv, [Next]_registryVars PROVE G!Next \/ UNCHANGED G!gatewayVars
    OBVIOUS
  <1>1. ASSUME NEW p \in Workers, Begin(p) \/ Step(p)
        PROVE  G!Next \/ UNCHANGED G!gatewayVars
    BY <1>1, PlainSeen, MarkingSeen DEF Step, PlainStep
  <1>2. ASSUME NEW p \in Workers, Hangup(p) PROVE G!Next \/ UNCHANGED G!gatewayVars
    BY <1>2, HangupSeen
  <1>3. ASSUME UNCHANGED registryVars PROVE UNCHANGED G!gatewayVars
    BY <1>3, SeesNoStep DEF registryVars, healthVars, Seen, Exists
  <1>4. \A p \in Procs : p \in Workers
    BY DEF Workers
  <1> QED
    BY <1>1, <1>2, <1>3, <1>4, RestartSeen, TickSeen DEF Next, Proceed

LEMMA WorldInit == Init => G!Init
  <1> SUFFICES ASSUME Init PROVE G!Init
    OBVIOUS
  <1>1. Seen = Ids
    <2>1. lastId = 0 /\ \A k \in Ids : k > 0
      BY IdsAreIds DEF Init
    <2> QED
      BY <2>1 DEF Seen
  <1>2. G!H!Init
    BY SameRows DEF Init
  <1> QED
    BY <1>1, <1>2 DEF G!Init, G!Zero, Seen, Unseen

(* The gateway's proofs let the rest of the world delete keys and report   *)
(* outcomes of probes at any time.  That covers what the admin handlers,   *)
(* the probes, clients that leave and restarts really do: whatever they do *)
(* together, seen from the gateway, is a step of that world or nothing.    *)
THEOREM RegistryIsTheWorld == Spec => IsTheWorldOfGateway
  BY WorldInit, WorldStep, Invariant, PTL DEF Spec, IsTheWorldOfGateway, G!Spec

(* So what is proved of KeyHealth holds of the registry: rows consistent,  *)
(* cooldowns bounded, no failure invented, even when a probe outlives its  *)
(* key or a client leaves it.                                              *)
THEOREM HealthCarriesOver ==
  Spec => []H!RowConsistent /\ []H!CooldownBounded /\ []H!CountBounded
  <1>1. (H!Init <=> P!Init)
    BY DEF H!Init, P!Init, H!AbsentRow, P!AbsentRow, H!NoCall, P!NoCall, H!NoKey, P!NoKey
  <1>2. (H!RowConsistent <=> P!RowConsistent)
    BY DEF H!RowConsistent, P!RowConsistent
  <1>3. (H!CooldownBounded <=> P!CooldownBounded) /\ (H!CountBounded <=> P!CountBounded)
    BY DEF H!CooldownBounded, P!CooldownBounded, H!FailureCooldown, P!FailureCooldown,
           H!Doublings, P!Doublings, H!CountBounded, P!CountBounded
  <1>4. [H!Next]_(H!healthVars) <=> [P!Next]_(P!healthVars)
    BY SameSteps DEF healthVars, H!healthVars
  <1>5. H!Spec => P!Spec
    BY <1>1, <1>4, PTL DEF H!Spec, P!Spec
  <1>6. P!Spec => []P!RowConsistent /\ []P!CooldownBounded /\ []P!CountBounded
    BY P!RowsAgree, P!CooldownsEndInTime, P!FailuresNotInvented, HealthAssumption, IdsAreIds
  <1> QED
    BY <1>2, <1>3, <1>5, <1>6, ImplementsKeyHealth, PTL

-----------------------------------------------------------------------------
(* One administrator, who begins nothing before all is quiet.              *)

(* If no client leaves, the catalog lists what it may, but in the middle   *)
(* of a handler that will yet rebuild it.                                  *)
Sound == Impatient = {} => \A m \in Models : catalog[m] \subseteq Current[m]

SoundPcs == {"write", "fetch", "list", "failing", "replace", "report", "state",
             "list_enabled", "next", "with_models", "states"}

(* The job that runs finds the world as it left it.  What it works on does *)
(* exist, but for a deletion and for a probe before it looks; what it has  *)
(* read is still so.                                                       *)
SerialJob(j) ==
    /\ HasKey(j) /\ j.op # "delete" /\ (j.op = "probe" => j.pc # "fetch") => Exists(j.key)
    /\ j.op = "delete" => j.pc \in {"rkeys", "rmodels", "swap"}
    /\ \A k \in Ids : j.todo[k].exists => Exists(k)
    /\ j.pc \in SoundPcs => Sound
    /\ j.pc = "write" => j.op = "update" /\ j.row = Merge(keys[j.key], j.patch)
    /\ j.pc = "reread" /\ (j.op = "create" \/ Enabled(j.key)) => Sound
    /\ j.pc = "ensure" /\ (j.op = "create" \/ j.row.enabled) => Sound
    /\ j.pc = "rmodels" => j.view = EnabledKeys
    /\ j.pc = "swap" => j.next = Current

Idle(p)  == job[p].pc = "idle"
Alone(p) == \A q \in Workers \ {p} : Idle(q)

JobsSerial ==
    /\ \A p \in Workers : ~Idle(p) => Alone(p) /\ SerialJob(job[p])
    /\ Quiet => Sound

HealthSerial ==
    /\ \A k \in Ids : H!HasRow(k) => Exists(k)
    /\ \A p \in Workers : job[p].pc \in {"marking", "failing"} => mark[p].key = job[p].key

SerialInv == Inv /\ JobsSerial /\ HealthSerial

(* p goes on serially.                                                     *)
GoesOn(p) ==
    /\ ~Idle(p)' => SerialJob(job[p])'
    /\ Idle(p)' => Sound'

LEMMA OthersIdle ==
  ASSUME Inv, JobsSerial, NEW p \in Workers, Alone(p), NEW pcs, JobMoves(p, pcs), GoesOn(p)
  PROVE  JobsSerial'
  <1>1. \A q \in Workers \ {p} : job'[q] = job[q]
    BY DEF JobMoves, Inv, JobsOK
  <1>2. Alone(p)'
    BY <1>1 DEF Alone, Idle
  <1>3. ASSUME NEW q \in Workers, ~Idle(q)' PROVE Alone(q)' /\ SerialJob(job[q])'
    <2>1. q = p
      BY <1>2, <1>3 DEF Alone
    <2> QED
      BY <1>2, <1>3, <2>1 DEF GoesOn
  <1>4. Quiet' => Sound'
    BY DEF Quiet, GoesOn, Idle
  <1> QED
    BY <1>3, <1>4 DEF JobsSerial

LEMMA SameSerial ==
  ASSUME JobsSerial, UNCHANGED <<keys, keyModels, catalog, job>>
  PROVE  JobsSerial'
  BY DEF JobsSerial, Idle, Alone, SerialJob, Quiet, Sound, Current, EnabledKeys, Derive,
         Exists, Enabled

(* A job that changes while the tables and the catalog do not.             *)
Frame == UNCHANGED <<keys, keyModels, catalog>>

LEMMA FrameSame ==
  ASSUME Frame
  PROVE  /\ Sound' = Sound /\ Current' = Current /\ EnabledKeys' = EnabledKeys
         /\ \A k \in Ids : Exists(k)' = Exists(k) /\ Enabled(k)' = Enabled(k)
         /\ \A j : SerialJob(j)' = SerialJob(j)
  <1>1. /\ EnabledKeys' = EnabledKeys
        /\ \A k \in Ids : Exists(k)' = Exists(k) /\ Enabled(k)' = Enabled(k)
    BY DEF Frame, EnabledKeys, Exists, Enabled
  <1>2. Current' = Current
    BY <1>1 DEF Frame, Current, Derive
  <1>3. Sound' = Sound
    BY <1>2 DEF Frame, Sound
  <1>4. ASSUME NEW j PROVE SerialJob(j)' = SerialJob(j)
    BY <1>1, <1>2, <1>3 DEF SerialJob, Frame, Exists, Enabled
  <1> QED
    BY <1>1, <1>2, <1>3, <1>4

LEMMA FinishOn ==
  ASSUME JobsOK, NEW p \in Workers, Finish(p), Sound'
  PROVE  GoesOn(p)
  <1>1. job'[p] = NoJob
    BY DEF Finish, JobsOK
  <1> QED
    BY <1>1 DEF GoesOn, Idle, NoJob

LEMMA AfterProbeOn ==
  ASSUME JobsOK, NEW p \in Workers, NEW ok \in BOOLEAN, AfterProbe(p, ok), Sound',
         HasKey(job[p]),
         \A k \in Ids : k = job[p].key /\ job[p].op # "delete" => Exists(k)',
         \A k \in Ids : job[p].todo[k].exists => Exists(k)'
  PROVE  GoesOn(p)
  <1>1. CASE Finish(p)
    BY <1>1, FinishOn
  <1>2. CASE ~Finish(p)
    <2> DEFINE op == job[p].op
               pc == CASE op = "startup" -> "next"
                       [] op = "probe"   -> "report"
                       [] op = "update"  -> "state"
               j  == [NoJob EXCEPT !.op = op, !.key = job[p].key, !.todo = job[p].todo,
                                   !.pc = pc]
    <2>1. op \in {"startup", "probe", "update"}
      BY <1>2 DEF AfterProbe, Ops, JobsOK, GoodJob, HasKey, Job
    <2>2. pc \in {"next", "report", "state"}
      <3>1. CASE op = "startup"
        BY <3>1, Zenon
      <3>2. CASE op = "probe"
        BY <3>2, Zenon
      <3>3. CASE op = "update"
        BY <3>3, Zenon
      <3> QED
        BY <2>1, <3>1, <3>2, <3>3
    <2>3. job'[p] = j
      BY <1>2 DEF AfterProbe, JobsOK
    <2>4. /\ job'[p].op = op /\ job'[p].key = job[p].key /\ job'[p].pc = pc
          /\ job'[p].todo = job[p].todo
      BY <2>3 DEF NoJob
    <2>5. job[p].key \in Ids
      BY DEF JobsOK, GoodJob
    <2> HIDE DEF j, op, pc
    <2>6. SerialJob(job[p])'
      BY <2>1, <2>2, <2>4, <2>5 DEF SerialJob, HasKey, Works, SoundPcs, op
    <2> QED
      BY <2>2, <2>4, <2>6 DEF GoesOn, Idle
  <1> QED
    BY <1>1, <1>2

(* The steps of a handler, one by one.                                     *)
LEMMA ListModelsOn ==
  ASSUME SerialInv, NEW p \in Workers, SerialJob(job[p]), ListModels(p)
  PROVE  GoesOn(p)
  <1>1. Sound' = Sound /\ Current' = Current /\ EnabledKeys' = EnabledKeys /\ keys' = keys
    BY FrameSame DEF ListModels, Frame, storeVars
  <1>2. HasKey(job[p]) /\ job[p].key \in Ids /\ job \in [Workers -> Job]
    BY DEF ListModels, At, HasKey, Works, SerialInv, Inv, JobsOK, GoodJob
  <1>3. /\ job'[p].op = job[p].op /\ job'[p].key = job[p].key /\ job'[p].todo = job[p].todo
        /\ job'[p].pc = "replace"
    BY <1>2 DEF ListModels, Job
  <1>4. SerialJob(job[p])'
    BY <1>1, <1>2, <1>3 DEF SerialJob, SoundPcs, HasKey, Works, Exists, Enabled, ListModels, At
  <1> QED
    BY <1>3, <1>4 DEF GoesOn, Idle

LEMMA ListFailsOn ==
  ASSUME SerialInv, NEW p \in Workers, SerialJob(job[p]), ListFails(p)
  PROVE  GoesOn(p)
  <1>1. Sound' = Sound /\ Current' = Current /\ EnabledKeys' = EnabledKeys /\ keys' = keys
    BY FrameSame DEF ListFails, Frame, storeVars
  <1>2. HasKey(job[p]) /\ job[p].key \in Ids /\ job \in [Workers -> Job]
    BY DEF ListFails, At, HasKey, Works, SerialInv, Inv, JobsOK, GoodJob
  <1>3. /\ job'[p].op = job[p].op /\ job'[p].key = job[p].key /\ job'[p].todo = job[p].todo
        /\ job'[p].pc = "failing"
    BY <1>2 DEF ListFails, Goto, Job
  <1>4. SerialJob(job[p])'
    BY <1>1, <1>2, <1>3 DEF SerialJob, SoundPcs, HasKey, Works, Exists, Enabled, ListFails, At
  <1> QED
    BY <1>3, <1>4 DEF GoesOn, Idle

LEMMA ReadKeysOn ==
  ASSUME SerialInv, NEW p \in Workers, SerialJob(job[p]), ReadKeys(p)
  PROVE  GoesOn(p)
  <1>1. Sound' = Sound /\ Current' = Current /\ EnabledKeys' = EnabledKeys /\ keys' = keys
    BY FrameSame DEF ReadKeys, Frame, storeVars
  <1>2. HasKey(job[p]) /\ job[p].key \in Ids /\ job \in [Workers -> Job]
    BY DEF ReadKeys, At, HasKey, Works, SerialInv, Inv, JobsOK, GoodJob
  <1>3. /\ job'[p].op = job[p].op /\ job'[p].key = job[p].key /\ job'[p].todo = job[p].todo
        /\ job'[p].pc = "rmodels" /\ job'[p].view = EnabledKeys
    BY <1>2 DEF ReadKeys, Job
  <1>4. SerialJob(job[p])'
    BY <1>1, <1>2, <1>3 DEF SerialJob, SoundPcs, HasKey, Works, Exists, Enabled, ReadKeys, At
  <1> QED
    BY <1>3, <1>4 DEF GoesOn, Idle

LEMMA ReadModelsOn ==
  ASSUME SerialInv, NEW p \in Workers, SerialJob(job[p]), ReadModels(p)
  PROVE  GoesOn(p)
  <1>1. Sound' = Sound /\ Current' = Current /\ EnabledKeys' = EnabledKeys /\ keys' = keys
    BY FrameSame DEF ReadModels, Frame, storeVars
  <1>2. HasKey(job[p]) /\ job[p].key \in Ids /\ job \in [Workers -> Job]
    BY DEF ReadModels, At, HasKey, Works, SerialInv, Inv, JobsOK, GoodJob
  <1>3. /\ job'[p].op = job[p].op /\ job'[p].key = job[p].key /\ job'[p].todo = job[p].todo
        /\ job'[p].pc = "swap" /\ job'[p].next = Derive(job[p].view, keyModels)
    BY <1>2 DEF ReadModels, Job
  <1>4. SerialJob(job[p])'
    BY <1>1, <1>2, <1>3 DEF SerialJob, SoundPcs, HasKey, Works, Exists, Enabled,
                                   ReadModels, At, Current
  <1> QED
    BY <1>3, <1>4 DEF GoesOn, Idle

LEMMA MarkProbeSuccessOn ==
  ASSUME SerialInv, NEW p \in Workers, SerialJob(job[p]), MarkProbeSuccess(p)
  PROVE  GoesOn(p)
  <1>1. Sound' = Sound /\ Current' = Current /\ EnabledKeys' = EnabledKeys /\ keys' = keys
    BY FrameSame DEF MarkProbeSuccess, Frame, storeVars
  <1>2. HasKey(job[p]) /\ job[p].key \in Ids /\ job \in [Workers -> Job]
    BY DEF MarkProbeSuccess, At, HasKey, Works, SerialInv, Inv, JobsOK, GoodJob
  <1>3. /\ job'[p].op = job[p].op /\ job'[p].key = job[p].key /\ job'[p].todo = job[p].todo
        /\ job'[p].pc \in {"marking", "rkeys"} /\ job[p].pc \in {"mark", "marking"}
    BY <1>2 DEF MarkProbeSuccess, Goto, At, Job
  <1>4. SerialJob(job[p])'
    BY <1>1, <1>2, <1>3 DEF SerialJob, SoundPcs, HasKey, Works, Exists
  <1> QED
    BY <1>3, <1>4 DEF GoesOn, Idle

LEMMA EnsureStateOn ==
  ASSUME SerialInv, NEW p \in Workers, SerialJob(job[p]), EnsureState(p)
  PROVE  GoesOn(p)
  <1>1. Sound' = Sound /\ Current' = Current /\ EnabledKeys' = EnabledKeys /\ keys' = keys
    BY FrameSame DEF EnsureState, Frame, storeVars
  <1>2. /\ HasKey(job[p]) /\ job[p].key \in Ids /\ job \in [Workers -> Job]
        /\ job[p].pc = "ensure" /\ Exists(job[p].key) /\ job[p].op # "delete"
    BY DEF EnsureState, At, HasKey, Works, SerialInv, Inv, JobsOK, GoodJob, SerialJob
  <1>3. /\ job'[p].op = job[p].op /\ job'[p].key = job[p].key /\ job'[p].todo = job[p].todo
        /\ job'[p].pc = IF job[p].op = "create" \/ job[p].row.enabled THEN "fetch" ELSE "rkeys"
    BY <1>2 DEF EnsureState, Goto, Job
  <1>4. SerialJob(job[p])'
    BY <1>1, <1>2, <1>3 DEF SerialJob, SoundPcs, HasKey, Works, Exists
  <1> QED
    BY <1>3, <1>4 DEF GoesOn, Idle

LEMMA RereadOn ==
  ASSUME SerialInv, NEW p \in Workers, SerialJob(job[p]), Reread(p)
  PROVE  GoesOn(p)
  <1>1. Sound' = Sound /\ Current' = Current /\ EnabledKeys' = EnabledKeys /\ keys' = keys
    BY FrameSame DEF Reread, Frame, storeVars
  <1>2. /\ HasKey(job[p]) /\ job[p].key \in Ids /\ job \in [Workers -> Job]
        /\ job[p].pc = "reread" /\ Exists(job[p].key) /\ job[p].op # "delete"
    BY DEF Reread, At, HasKey, Works, SerialInv, Inv, JobsOK, GoodJob, SerialJob
  <1>3. /\ job'[p].op = job[p].op /\ job'[p].key = job[p].key /\ job'[p].todo = job[p].todo
        /\ job'[p].pc = "ensure" /\ job'[p].row = keys[job[p].key]
    BY <1>2 DEF Reread, Job
  <1>4. SerialJob(job[p])'
    BY <1>1, <1>2, <1>3 DEF SerialJob, SoundPcs, HasKey, Works, Exists, Enabled
  <1> QED
    BY <1>3, <1>4 DEF GoesOn, Idle

LEMMA FetchOn ==
  ASSUME SerialInv, NEW p \in Workers, SerialJob(job[p]), Fetch(p)
  PROVE  GoesOn(p)
  <1>1. Sound' = Sound /\ Current' = Current /\ EnabledKeys' = EnabledKeys /\ keys' = keys
    BY FrameSame DEF Fetch, Frame, storeVars
  <1>2. /\ HasKey(job[p]) /\ job[p].key \in Ids /\ job \in [Workers -> Job]
        /\ job[p].pc = "fetch" /\ job[p].op # "delete" /\ Sound
    BY DEF Fetch, At, HasKey, Works, SerialInv, Inv, JobsOK, GoodJob, SerialJob, SoundPcs
  <1>3. CASE Exists(job[p].key)
    <2>1. /\ job'[p].op = job[p].op /\ job'[p].key = job[p].key
          /\ job'[p].todo = job[p].todo /\ job'[p].pc = "list"
      BY <1>2, <1>3 DEF Fetch, Job
    <2>2. SerialJob(job[p])'
      BY <1>1, <1>2, <1>3, <2>1 DEF SerialJob, SoundPcs, HasKey, Works, Exists
    <2> QED
      BY <2>1, <2>2 DEF GoesOn, Idle
  <1>4. CASE ~Exists(job[p].key)
    <2>1. job[p].op = "probe"
      BY <1>2, <1>4 DEF SerialJob
    <2>2. Finish(p)
      BY <1>4, <2>1 DEF Fetch, AfterProbe
    <2> QED
      BY <1>1, <1>2, <2>2, FinishOn DEF SerialInv, Inv
  <1> QED
    BY <1>3, <1>4

LEMMA ReportOn ==
  ASSUME SerialInv, NEW p \in Workers, SerialJob(job[p]), Report(p)
  PROVE  GoesOn(p)
  <1>1. Sound' = Sound /\ Current' = Current /\ EnabledKeys' = EnabledKeys /\ keys' = keys
    BY FrameSame DEF Report, Frame, storeVars
  <1>2. /\ HasKey(job[p]) /\ job[p].key \in Ids /\ job \in [Workers -> Job]
        /\ job[p].pc = "report" /\ Sound
    BY DEF Report, At, HasKey, Works, SerialInv, Inv, JobsOK, GoodJob, SerialJob, SoundPcs
  <1>3. CASE Exists(job[p].key)
    <2>1. /\ job'[p].op = job[p].op /\ job'[p].key = job[p].key
          /\ job'[p].todo = job[p].todo /\ job'[p].pc = "state"
      BY <1>2, <1>3 DEF Report, Goto, Job
    <2>2. SerialJob(job[p])'
      BY <1>1, <1>2, <1>3, <2>1 DEF SerialJob, SoundPcs, HasKey, Works, Exists
    <2> QED
      BY <2>1, <2>2 DEF GoesOn, Idle
  <1>4. CASE ~Exists(job[p].key)
    BY <1>1, <1>2, <1>4, FinishOn DEF Report, SerialInv, Inv
  <1> QED
    BY <1>3, <1>4

LEMMA ReportStateOn ==
  ASSUME SerialInv, NEW p \in Workers, SerialJob(job[p]), ReportState(p)
  PROVE  GoesOn(p)
  <1>1. Sound' = Sound /\ Current' = Current /\ EnabledKeys' = EnabledKeys /\ keys' = keys
    BY FrameSame DEF ReportState, Frame, storeVars
  <1>2. Sound
    BY DEF ReportState, At, SerialJob, SoundPcs
  <1> QED
    BY <1>1, <1>2, FinishOn DEF ReportState, SerialInv, Inv

LEMMA SwapOn ==
  ASSUME SerialInv, NEW p \in Workers, SerialJob(job[p]), Swap(p)
  PROVE  GoesOn(p)
  <1>1. /\ HasKey(job[p]) /\ job[p].key \in Ids /\ job \in [Workers -> Job]
        /\ job[p].pc = "swap" /\ keys' = keys /\ keyModels' = keyModels /\ catalog' = Current
    BY DEF Swap, At, HasKey, Works, SerialInv, Inv, JobsOK, GoodJob, SerialJob, storeVars
  <1>2. Current' = Current
    BY <1>1 DEF Current, EnabledKeys, Enabled, Derive
  <1>3. Sound'
    BY <1>1, <1>2 DEF Sound
  <1>4. \A k \in Ids : k = job[p].key /\ job[p].op # "delete" => Exists(k)'
    BY <1>1 DEF SerialJob, Exists
  <1>5. \A k \in Ids : job[p].todo[k].exists => Exists(k)'
    BY <1>1 DEF SerialJob, Exists
  <1>6. AfterProbe(p, TRUE)
    BY DEF Swap
  <1> QED
    BY <1>1, <1>3, <1>4, <1>5, <1>6, AfterProbeOn DEF SerialInv, Inv

LEMMA ProbeFailingOn ==
  ASSUME SerialInv, NEW p \in Workers, SerialJob(job[p]), ProbeFailing(p)
  PROVE  GoesOn(p)
  <1>1. Sound' = Sound /\ Current' = Current /\ EnabledKeys' = EnabledKeys /\ keys' = keys
    BY FrameSame DEF ProbeFailing, Frame, storeVars
  <1>2. /\ HasKey(job[p]) /\ job[p].key \in Ids /\ job \in [Workers -> Job]
        /\ job[p].pc = "failing" /\ Sound
    BY DEF ProbeFailing, At, HasKey, Works, SerialInv, Inv, JobsOK, GoodJob, SerialJob, SoundPcs
  <1>3. CASE AfterProbe(p, FALSE)
    <2>1. \A k \in Ids : k = job[p].key /\ job[p].op # "delete" => Exists(k)'
      BY <1>1, <1>2 DEF SerialJob, Exists
    <2>2. \A k \in Ids : job[p].todo[k].exists => Exists(k)'
      BY <1>1 DEF SerialJob, Exists
    <2> QED
      BY <1>1, <1>2, <1>3, <2>1, <2>2, AfterProbeOn DEF SerialInv, Inv
  <1>4. CASE UNCHANGED job
    <2>1. SerialJob(job[p])'
      BY <1>1, <1>4, <1>2 DEF SerialJob, SoundPcs, HasKey, Works, Exists
    <2> QED
      BY <1>2, <1>4, <2>1 DEF GoesOn, Idle
  <1> QED
    BY <1>3, <1>4 DEF ProbeFailing

LEMMA KeepWithModelsOn ==
  ASSUME SerialInv, NEW p \in Workers, SerialJob(job[p]), KeepWithModels(p)
  PROVE  GoesOn(p)
  <1>1. Sound' = Sound /\ Current' = Current /\ EnabledKeys' = EnabledKeys /\ keys' = keys
    BY FrameSame DEF KeepWithModels, Frame, storeVars
  <1>2. job \in [Workers -> Job] /\ job[p].pc = "with_models" /\ ~AbsentKey.exists
    BY DEF KeepWithModels, At, SerialInv, Inv, JobsOK, AbsentKey
  <1>3. /\ job'[p].op = job[p].op /\ job'[p].pc = "states"
        /\ \A k \in Ids : job'[p].todo[k].exists => job[p].todo[k].exists
    BY <1>2 DEF KeepWithModels, Job
  <1>4. SerialJob(job[p])'
    BY <1>1, <1>2, <1>3 DEF SerialJob, SoundPcs, HasKey, Works, Exists
  <1> QED
    BY <1>3, <1>4 DEF GoesOn, Idle

LEMMA ListStateOn ==
  ASSUME SerialInv, NEW p \in Workers, SerialJob(job[p]), ListState(p)
  PROVE  GoesOn(p)
  <1>1. Sound' = Sound /\ Current' = Current /\ EnabledKeys' = EnabledKeys /\ keys' = keys
    BY FrameSame DEF ListState, Frame, storeVars
  <1>2. /\ job \in [Workers -> Job] /\ job[p].pc = "states" /\ ~AbsentKey.exists /\ Sound
    BY DEF ListState, At, SerialInv, Inv, JobsOK, AbsentKey, SerialJob, SoundPcs
  <1>3. CASE Left(p) = {}
    BY <1>1, <1>2, <1>3, FinishOn DEF ListState, SerialInv, Inv
  <1>4. CASE Left(p) # {}
    <2> DEFINE n == Least(Left(p))
    <2>1. job' = [job EXCEPT ![p].todo[n] = AbsentKey]
      BY <1>4 DEF ListState
    <2> HIDE DEF n
    <2>2. /\ job'[p].op = job[p].op /\ job'[p].pc = "states"
          /\ \A k \in Ids : job'[p].todo[k].exists => job[p].todo[k].exists
      BY <1>2, <2>1 DEF Job
    <2>3. SerialJob(job[p])'
      BY <1>1, <1>2, <2>2 DEF SerialJob, SoundPcs, HasKey, Works, Exists
    <2> QED
      BY <2>2, <2>3 DEF GoesOn, Idle
  <1> QED
    BY <1>3, <1>4

LEMMA OnlyExisting ==
  ASSUME NEW S \in SUBSET Ids, \A k \in S : Exists(k)
  PROVE  \A k \in Ids : Listed(S)[k].exists => Exists(k)
  BY DEF Listed, AbsentKey, Exists

LEMMA ListEnabledOn ==
  ASSUME SerialInv, NEW p \in Workers, SerialJob(job[p]), ListEnabled(p)
  PROVE  GoesOn(p)
  <1>1. Sound' = Sound /\ Current' = Current /\ EnabledKeys' = EnabledKeys /\ keys' = keys
    BY FrameSame DEF ListEnabled, Frame, storeVars
  <1>2. job \in [Workers -> Job] /\ job[p].pc = "list_enabled" /\ Sound
    BY DEF ListEnabled, At, SerialInv, Inv, JobsOK, SerialJob, SoundPcs
  <1>3. job'[p].op = job[p].op /\ job'[p].pc = "next" /\ job'[p].todo = Listed(EnabledKeys)
    BY <1>2 DEF ListEnabled, Job
  <1>4. \A k \in Ids : Listed(EnabledKeys)[k].exists => Exists(k)
    BY OnlyExisting DEF EnabledKeys, SerialInv, Inv, StoreOK
  <1>5. job[p].op # "delete"
    BY <1>2 DEF SerialJob
  <1>6. SerialJob(job[p])'
    BY <1>1, <1>2, <1>3, <1>4, <1>5 DEF SerialJob, SoundPcs, HasKey, Works, Exists
  <1> QED
    BY <1>3, <1>6 DEF GoesOn, Idle

LEMMA ProbeNextOn ==
  ASSUME SerialInv, NEW p \in Workers, SerialJob(job[p]), ProbeNext(p)
  PROVE  GoesOn(p)
  <1>1. Sound' = Sound /\ Current' = Current /\ EnabledKeys' = EnabledKeys /\ keys' = keys
    BY FrameSame DEF ProbeNext, Frame, storeVars
  <1>2. /\ job \in [Workers -> Job] /\ job[p].pc = "next" /\ ~AbsentKey.exists /\ Sound
    BY DEF ProbeNext, At, SerialInv, Inv, JobsOK, AbsentKey, SerialJob, SoundPcs
  <1>3. CASE Left(p) = {}
    BY <1>1, <1>2, <1>3, FinishOn DEF ProbeNext, SerialInv, Inv
  <1>4. CASE Left(p) # {}
    <2> DEFINE n == Least(Left(p))
               row == job[p].todo[n]
    <2>1. n \in Ids /\ row.exists
      BY <1>4, LeastIsOne DEF Left
    <2>2. job' = [job EXCEPT ![p].key = n, ![p].row = row, ![p].todo[n] = AbsentKey,
                             ![p].pc = "list"]
      BY <1>4 DEF ProbeNext
    <2>3. Exists(n)
      BY <2>1 DEF SerialJob
    <2> HIDE DEF n, row
    <2>4. /\ job'[p].op = job[p].op /\ job'[p].pc = "list" /\ job'[p].key = n
          /\ \A k \in Ids : job'[p].todo[k].exists => job[p].todo[k].exists
      BY <1>2, <2>2 DEF Job
    <2>5. job[p].op # "delete"
      BY <1>2 DEF SerialJob
    <2>6. SerialJob(job[p])'
      BY <1>1, <1>2, <2>3, <2>4, <2>5 DEF SerialJob, SoundPcs, HasKey, Works, Exists
    <2> QED
      BY <2>4, <2>6 DEF GoesOn, Idle
  <1> QED
    BY <1>3, <1>4

LEMMA ReplaceForKeyOn ==
  ASSUME SerialInv, NEW p \in Workers, SerialJob(job[p]), ReplaceForKey(p)
  PROVE  GoesOn(p)
  <1>1. /\ HasKey(job[p]) /\ job[p].key \in Ids /\ job \in [Workers -> Job]
        /\ job[p].pc = "replace" /\ keys' = keys
    BY DEF ReplaceForKey, At, HasKey, Works, SerialInv, Inv, JobsOK, GoodJob
  <1>2. /\ job'[p].op = job[p].op /\ job'[p].key = job[p].key /\ job'[p].todo = job[p].todo
        /\ job'[p].pc = "mark"
    BY <1>1 DEF ReplaceForKey, Job
  <1>3. SerialJob(job[p])'
    BY <1>1, <1>2 DEF SerialJob, SoundPcs, HasKey, Works, Exists
  <1> QED
    BY <1>2, <1>3 DEF GoesOn, Idle

(* Whatever keys are added or enabled, the catalog stays sound.            *)
LEMMA SoundGrows ==
  ASSUME Sound, keyModels' = keyModels, catalog' = catalog,
         \A k \in Ids : Enabled(k) => Enabled(k)'
  PROVE  Sound'
  BY DEF Sound, Current, Derive, EnabledKeys

LEMMA UpdateWriteOn ==
  ASSUME SerialInv, NEW p \in Workers, SerialJob(job[p]), UpdateWrite(p)
  PROVE  GoesOn(p)
  <1> DEFINE n == job[p].key
             row == job[p].row
  <1>1. /\ n \in Ids /\ job \in [Workers -> Job] /\ job[p].pc = "write" /\ job[p].op = "update"
        /\ Exists(n) /\ Sound /\ row.exists /\ keys \in [Ids -> Key]
    BY DEF UpdateWrite, At, HasKey, Works, SerialInv, Inv, JobsOK, GoodJob, SerialJob, SoundPcs,
           StoreOK
  <1>2. keys' = [keys EXCEPT ![n] = row] /\ keyModels' = keyModels /\ catalog' = catalog
    BY <1>1 DEF UpdateWrite
  <1>3. /\ job'[p].op = job[p].op /\ job'[p].key = n /\ job'[p].todo = job[p].todo
        /\ job'[p].pc = "reread"
    BY <1>1 DEF UpdateWrite, Goto, Job
  <1> HIDE DEF n, row
  <1>4. \A k \in Ids : Exists(k) => Exists(k)'
    BY <1>1, <1>2 DEF Exists
  <1>5. ASSUME keys'[n].enabled PROVE Sound'
    BY <1>1, <1>2, <1>5, SoundGrows DEF Enabled
  <1>6. SerialJob(job[p])'
    <2>1. Exists(job[p].key)'
      BY <1>1, <1>2, <1>3 DEF Exists
    <2>2. Enabled(job[p].key)' => Sound'
      BY <1>3, <1>5 DEF Enabled
    <2>3. \A k \in Ids : job'[p].todo[k].exists => Exists(k)'
      BY <1>3, <1>4 DEF SerialJob
    <2> QED
      BY <1>1, <1>3, <2>1, <2>2, <2>3 DEF SerialJob, SoundPcs
  <1> QED
    BY <1>3, <1>6 DEF GoesOn, Idle

LEMMA CreateOn ==
  ASSUME SerialInv, NEW p \in Workers, Quiet, NEW e, NEW c, Create(p, e, c)
  PROVE  GoesOn(p)
  <1> DEFINE n == FreshId
  <1>1. n \in Ids /\ n > lastId /\ keys \in [Ids -> Key]
    BY RegistryAssumption DEF Create, FreshId, Ids, SerialInv, Inv, StoreOK
  <1>2. ~Enabled(n) /\ Sound
    BY <1>1 DEF SerialInv, Inv, StoreOK, JobsSerial
  <1>3. keys' = [keys EXCEPT ![n] = Row(e, c)] /\ keyModels' = keyModels /\ catalog' = catalog
    BY DEF Create
  <1>4. job'[p] = [NoJob EXCEPT !.op = "create", !.key = n, !.pc = "reread"]
    BY DEF Create, SerialInv, Inv, JobsOK
  <1>5. /\ job'[p].op = "create" /\ job'[p].key = n /\ job'[p].pc = "reread"
        /\ job'[p].todo = NoTodo
    BY <1>4 DEF NoJob
  <1> HIDE DEF n
  <1>6. Sound'
    BY <1>1, <1>2, <1>3, SoundGrows DEF Enabled
  <1>7. Exists(job[p].key)'
    BY <1>1, <1>3, <1>5 DEF Exists, Row
  <1>8. SerialJob(job[p])'
    BY <1>5, <1>6, <1>7, NothingIn DEF SerialJob, SoundPcs
  <1> QED
    BY <1>5, <1>8 DEF GoesOn, Idle

LEMMA DeleteOn ==
  ASSUME SerialInv, NEW p \in Workers, Quiet, NEW n \in Ids, Delete(p, n)
  PROVE  GoesOn(p)
  <1>1. job'[p] = [NoJob EXCEPT !.op = "delete", !.key = n, !.pc = "rkeys"]
    BY DEF Delete, SerialInv, Inv, JobsOK
  <1>2. job'[p].op = "delete" /\ job'[p].pc = "rkeys" /\ job'[p].todo = NoTodo
    BY <1>1 DEF NoJob
  <1>3. SerialJob(job[p])'
    BY <1>2, NothingIn DEF SerialJob, SoundPcs
  <1> QED
    BY <1>2, <1>3 DEF GoesOn, Idle

LEMMA ProbeOn ==
  ASSUME SerialInv, NEW p \in Workers, Quiet, NEW n \in Ids, Probe(p, n)
  PROVE  GoesOn(p)
  <1>1. Sound' = Sound /\ Current' = Current /\ EnabledKeys' = EnabledKeys /\ keys' = keys
    BY FrameSame DEF Probe, Frame, storeVars
  <1>2. job'[p] = [NoJob EXCEPT !.op = "probe", !.key = n, !.pc = "fetch"] /\ Sound
    BY DEF Probe, SerialInv, Inv, JobsOK, JobsSerial
  <1>3. job'[p].op = "probe" /\ job'[p].pc = "fetch" /\ job'[p].todo = NoTodo
    BY <1>2 DEF NoJob
  <1>4. SerialJob(job[p])'
    BY <1>1, <1>2, <1>3, NothingIn DEF SerialJob, SoundPcs
  <1> QED
    BY <1>3, <1>4 DEF GoesOn, Idle

LEMMA UpdateReadOn ==
  ASSUME SerialInv, NEW p \in Workers, Quiet, NEW n \in Ids, NEW q, UpdateRead(p, n, q)
  PROVE  GoesOn(p)
  <1>1. Sound' = Sound /\ Current' = Current /\ EnabledKeys' = EnabledKeys /\ keys' = keys
    BY FrameSame DEF UpdateRead, Frame, storeVars
  <1>2. /\ job'[p] = [NoJob EXCEPT !.op = "update", !.key = n, !.patch = q, !.pc = "write",
                                   !.row = Merge(keys[n], q)]
        /\ Sound /\ Exists(n)
    BY DEF UpdateRead, SerialInv, Inv, JobsOK, JobsSerial
  <1>3. /\ job'[p].op = "update" /\ job'[p].key = n /\ job'[p].pc = "write"
        /\ job'[p].todo = NoTodo /\ job'[p].patch = q /\ job'[p].row = Merge(keys[n], q)
    BY <1>2 DEF NoJob
  <1>4. job'[p].row = Merge(keys'[job'[p].key], job'[p].patch)
    BY <1>1, <1>3
  <1>5. Exists(job[p].key)'
    BY <1>1, <1>2, <1>3 DEF Exists
  <1>6. SerialJob(job[p])'
    BY <1>1, <1>2, <1>3, <1>4, <1>5, NothingIn DEF SerialJob, SoundPcs, Merge
  <1> QED
    BY <1>3, <1>6 DEF GoesOn, Idle

LEMMA ListOn ==
  ASSUME SerialInv, NEW p \in Workers, Quiet, List(p)
  PROVE  GoesOn(p)
  <1>1. Sound' = Sound /\ Current' = Current /\ EnabledKeys' = EnabledKeys /\ keys' = keys
    BY FrameSame DEF List, Frame, storeVars
  <1> DEFINE todo == Listed({k \in Ids : Exists(k)})
  <1>2. PICK pc \in {"states", "with_models"} :
          job' = [job EXCEPT ![p] = [NoJob EXCEPT !.op = "list", !.pc = pc, !.todo = todo]]
    BY DEF List
  <1>3. \A k \in Ids : todo[k].exists => Exists(k)
    BY OnlyExisting
  <1> HIDE DEF todo
  <1>4. job'[p] = [NoJob EXCEPT !.op = "list", !.pc = pc, !.todo = todo] /\ Sound
    BY <1>2 DEF SerialInv, Inv, JobsOK, JobsSerial
  <1>5. job'[p].op = "list" /\ job'[p].pc = pc /\ job'[p].todo = todo
    BY <1>4 DEF NoJob
  <1>6. SerialJob(job[p])'
    BY <1>1, <1>3, <1>4, <1>5 DEF SerialJob, SoundPcs, HasKey, Works, Exists
  <1> QED
    BY <1>5, <1>6 DEF GoesOn, Idle

-----------------------------------------------------------------------------
(* Rows of health and open calls are of keys that exist.                   *)
LEMMA RowsStay ==
  ASSUME HealthSerial, UNCHANGED keyState, \A k \in Ids : Exists(k) => Exists(k)'
  PROVE  \A k \in Ids : H!HasRow(k)' => Exists(k)'
  BY DEF HealthSerial, H!HasRow

LEMMA RowsEnsured ==
  ASSUME HealthSerial, H!TypeOK, UNCHANGED keys, NEW n \in Ids, Exists(n),
         keyState' = H!Ensured(n)
  PROVE  \A k \in Ids : H!HasRow(k)' => Exists(k)'
  <1>1. \A k \in Ids : keyState'[k] = keyState[k] \/ k = n
    BY DEF H!Ensured, H!TypeOK
  <1> QED
    BY <1>1 DEF HealthSerial, H!HasRow, Exists

LEMMA PlainCalls ==
  ASSUME SerialInv, NEW p \in Workers, Plain(p)
  PROVE  \A q \in Workers : job'[q].pc \in {"marking", "failing"} => mark'[q].key = job'[q].key
  <1>1. PICK j \in Job : j.pc \in Calm /\ job' = [job EXCEPT ![p] = j]
    BY DEF Plain, JobMoves
  <1>2. job'[p] = j /\ \A q \in Workers \ {p} : job'[q] = job[q]
    BY <1>1 DEF SerialInv, Inv, JobsOK
  <1> QED
    BY <1>1, <1>2 DEF SerialInv, HealthSerial, Plain, Calm

LEMMA PlainRows ==
  ASSUME SerialInv, NEW p \in Workers,
         Begin(p) \/ (SerialJob(job[p]) /\ PlainStep(p))
  PROVE  \A k \in Ids : H!HasRow(k)' => Exists(k)'
  <1> DEFINE Good == \A k \in Ids : H!HasRow(k)' => Exists(k)'
  <1>1. ASSUME NEW e, NEW c, Create(p, e, c) PROVE Good
    <2>1. keys' = [keys EXCEPT ![FreshId] = Row(e, c)] /\ keyState' = keyState
      BY <1>1 DEF Create, healthVars
    <2>2. \A k \in Ids : Exists(k) => Exists(k)'
      BY <2>1 DEF Exists, Row, SerialInv, Inv, StoreOK
    <2> QED
      BY <2>1, <2>2, RowsStay DEF SerialInv
  <1>2. ASSUME NEW n \in Ids, Delete(p, n) PROVE Good
    <2>1. /\ keys' = [keys EXCEPT ![n] = AbsentKey]
          /\ keyState' = [keyState EXCEPT ![n] = H!AbsentRow]
      BY <1>2 DEF Delete, H!DeleteRow
    <2>2. H!AbsentRow.status = "absent"
      BY DEF H!AbsentRow
    <2> QED
      BY <2>1, <2>2 DEF SerialInv, HealthSerial, H!HasRow, Exists, Inv, StoreOK, H!TypeOK
  <1>3. ASSUME \/ \E k \in Ids, q \in Puts : UpdateRead(p, k, q)
               \/ \E k \in Ids : Probe(p, k)
               \/ List(p)
        PROVE  Good
    BY <1>3, RowsStay DEF UpdateRead, Probe, List, storeVars, healthVars, Exists, SerialInv
  <1>4. ASSUME UpdateWrite(p) PROVE Good
    <2>1. /\ job[p].key \in Ids /\ job[p].row.exists
          /\ keys' = [keys EXCEPT ![job[p].key] = job[p].row] \/ keys' = keys
          /\ keyState' = keyState
      BY <1>4 DEF UpdateWrite, At, SerialInv, Inv, JobsOK, GoodJob, HasKey, Works, healthVars
    <2>2. \A k \in Ids : Exists(k) => Exists(k)'
      BY <2>1 DEF Exists, SerialInv, Inv, StoreOK
    <2> QED
      BY <2>1, <2>2, RowsStay DEF SerialInv
  <1>5. ASSUME SerialJob(job[p]), EnsureState(p) \/ ReportState(p) PROVE Good
    <2>1. /\ job[p].key \in Ids /\ Exists(job[p].key) /\ keys' = keys
          /\ keyState' = H!Ensured(job[p].key)
      BY <1>5 DEF EnsureState, ReportState, At, SerialInv, Inv, JobsOK, GoodJob, HasKey, Works,
                  SerialJob, storeVars, H!Ensure
    <2> QED
      BY <2>1, RowsEnsured DEF SerialInv, Inv
  <1>6. ASSUME SerialJob(job[p]), ListState(p) PROVE Good
    <2>1. keys' = keys
      BY <1>6 DEF ListState, storeVars
    <2>2. CASE Left(p) = {}
      BY <1>6, <2>1, <2>2, RowsStay DEF ListState, healthVars, Exists, SerialInv
    <2>3. CASE Left(p) # {}
      <3> DEFINE n == Least(Left(p))
      <3>1. n \in Ids /\ job[p].todo[n].exists
        BY <2>3, LeastIsOne DEF Left
      <3>2. keyState' = H!Ensured(n)
        BY <1>6, <2>3 DEF ListState, H!Ensure
      <3>3. Exists(n)
        BY <1>6, <3>1 DEF SerialJob
      <3> HIDE DEF n
      <3> QED
        BY <2>1, <3>1, <3>2, <3>3, RowsEnsured DEF SerialInv, Inv
    <2> QED
      BY <2>2, <2>3
  <1>7. ASSUME Reread(p) \/ Fetch(p) \/ ListModels(p) \/ ReplaceForKey(p) \/ ReadKeys(p)
                 \/ ReadModels(p)
        PROVE  Good
    BY <1>7, RowsStay
       DEF Reread, Fetch, ListModels, ReplaceForKey, ReadKeys, ReadModels, storeVars, healthVars,
           Exists, SerialInv
  <1>8. ASSUME Swap(p) \/ Report(p) \/ KeepWithModels(p) \/ ListEnabled(p) \/ ProbeNext(p)
        PROVE  Good
    BY <1>8, RowsStay
       DEF Swap, Report, KeepWithModels, ListEnabled, ProbeNext, storeVars, healthVars,
           Exists, SerialInv
  <1> HIDE DEF Good
  <1>9. Good
    BY <1>1, <1>2, <1>3, <1>4, <1>5, <1>6, <1>7, <1>8 DEF Begin, PlainStep
  <1> QED
    BY <1>9 DEF Good

(* The steps of a probe that mark its key, which exists.                   *)
LEMMA MarkingSerial ==
  ASSUME SerialInv, NEW p \in Workers, SerialJob(job[p]),
         ListFails(p) \/ MarkProbeSuccess(p) \/ ProbeFailing(p)
  PROVE  HealthSerial'
  <1> DEFINE n == job[p].key
             Rows == \A k \in Ids : H!HasRow(k)' => Exists(k)'
             Call == job'[p].pc \in {"marking", "failing"} =>
                       mark'[p].key = n /\ job'[p].key = n
  <1>1. /\ n \in Ids /\ Exists(n) /\ keys' = keys /\ job \in [Workers -> Job]
        /\ mark \in [Workers -> H!Call] /\ HasKey(job[p])
    BY DEF ListFails, MarkProbeSuccess, ProbeFailing, At, SerialInv, Inv, JobsOK, GoodJob,
           HasKey, Works, SerialJob, storeVars, H!TypeOK
  <1>2. \A q \in Workers \ {p} : job'[q] = job[q] /\ mark'[q] = mark[q]
    <2>1. \A q \in Workers \ {p} : job'[q] = job[q]
      BY <1>1 DEF ListFails, MarkProbeSuccess, ProbeFailing, Goto, AfterProbe, Finish
    <2>2. \A q \in Workers \ {p} : mark'[q] = mark[q]
      BY <1>1 DEF ListFails, MarkProbeSuccess, ProbeFailing, H!MarkBegin, H!MarkReset,
                  H!MarkRecheck, H!MarkRead, H!MarkWrite
    <2> QED
      BY <2>1, <2>2
  <1>3. ASSUME NEW o, NEW pc, H!MarkBegin(p, n, o), Goto(p, pc) PROVE Rows /\ Call
    <2>1. mark'[p] = H!Opened(n, o) /\ keyState' = H!Ensured(n)
      BY <1>1, <1>3 DEF H!MarkBegin
    <2>2. H!Opened(n, o).key = n
      BY DEF H!Opened
    <2>3. job'[p].key = n
      BY <1>1, <1>3 DEF Goto, Job
    <2>4. Rows
      BY <1>1, <2>1, RowsEnsured DEF SerialInv, Inv
    <2> QED
      BY <2>1, <2>2, <2>3, <2>4
  <1>4. ASSUME H!MarkReset(p), Goto(p, "rkeys") PROVE Rows /\ Call
    <2>1. job'[p].pc = "rkeys"
      BY <1>1, <1>4 DEF Goto, Job
    <2>2. \A k \in Ids : H!HasRow(k)' => H!HasRow(k)
      BY <1>4 DEF H!MarkReset, H!HasRow, SerialInv, Inv, H!TypeOK
    <2> QED
      BY <1>1, <2>1, <2>2 DEF SerialInv, HealthSerial, Exists
  <1>5. ASSUME ProbeFailing(p) PROVE Rows /\ Call
    <2>1. mark[p].key = n
      BY <1>5 DEF ProbeFailing, At, SerialInv, HealthSerial
    <2>2. CASE H!MarkRecheck(p)
      <3>1. keyState' = H!Ensured(n) /\ mark'[p] = [mark[p] EXCEPT !.pc = "again"]
        BY <1>1, <2>1, <2>2 DEF H!MarkRecheck
      <3>2. mark'[p].key = n /\ mark'[p].pc = "again"
        BY <1>1, <2>1, <3>1 DEF H!Call
      <3>3. mark'[p] # H!NoCall
        BY <3>2 DEF H!NoCall
      <3>4. job' = job
        BY <1>5, <3>3 DEF ProbeFailing
      <3>5. Rows
        BY <1>1, <3>1, RowsEnsured DEF SerialInv, Inv
      <3> QED
        BY <3>2, <3>4, <3>5
    <2>3. CASE H!MarkRead(p) \/ H!MarkWrite(p)
      <3>1. \A k \in Ids : H!HasRow(k)' => H!HasRow(k)
        BY <2>3 DEF H!MarkRead, H!MarkWrite, H!HasRow, SerialInv, Inv, H!TypeOK
      <3>2. mark'[p] = H!NoCall \/ mark'[p].key = n
        BY <1>1, <2>1, <2>3 DEF H!MarkRead, H!MarkWrite, H!HasSeen
      <3>3. CASE mark'[p] = H!NoCall
        <4>1. GoesOn(p) /\ AfterProbe(p, FALSE)
          BY <1>5, <3>3, ProbeFailingOn DEF ProbeFailing
        <4>2. JobMoves(p, Calm)
          BY <1>1, <1>5, <4>1, AfterProbeMoves DEF SerialInv, Inv, ProbeFailing, storeVars
        <4>3. job'[p].pc \in Calm
          BY <4>2 DEF JobMoves, SerialInv, Inv, JobsOK
        <4> QED
          BY <1>1, <3>1, <4>3 DEF SerialInv, HealthSerial, Exists, Calm
      <3>4. CASE mark'[p] # H!NoCall
        BY <1>1, <1>5, <3>1, <3>2, <3>4 DEF ProbeFailing, SerialInv, HealthSerial, Exists
      <3> QED
        BY <3>3, <3>4
    <2> QED
      BY <1>5, <2>2, <2>3 DEF ProbeFailing
  <1>6. Rows /\ Call
    BY <1>3, <1>4, <1>5 DEF ListFails, MarkProbeSuccess
  <1> QED
    BY <1>2, <1>6 DEF SerialInv, HealthSerial

-----------------------------------------------------------------------------
LEMMA StepBusy ==
  ASSUME NEW p \in Workers, Step(p)
  PROVE  ~Idle(p)
  <1>1. CASE PlainStep(p)
    BY <1>1 DEF PlainStep, EnsureState, UpdateWrite, Reread, Fetch, ListModels, ReplaceForKey,
           ReadKeys, ReadModels, Swap, Report, ReportState, KeepWithModels, ListState,
           ListEnabled, ProbeNext, At, Idle
  <1>2. CASE ListFails(p) \/ ProbeFailing(p) \/ MarkProbeSuccess(p)
    BY <1>2 DEF ListFails, ProbeFailing, MarkProbeSuccess, At, Idle
  <1> QED
    BY <1>1, <1>2 DEF Step, PlainStep

LEMMA StepOn ==
  ASSUME SerialInv, NEW p \in Workers, SerialJob(job[p]), Step(p)
  PROVE  GoesOn(p)
  <1>1. CASE EnsureState(p) \/ Reread(p) \/ Fetch(p) \/ ListModels(p) \/ ListFails(p)
               \/ ReadKeys(p) \/ ReadModels(p)
    BY <1>1, EnsureStateOn, RereadOn, FetchOn, ListModelsOn, ListFailsOn, ReadKeysOn, ReadModelsOn
  <1>2. CASE UpdateWrite(p) \/ ReplaceForKey(p) \/ Swap(p) \/ Report(p) \/ ReportState(p)
               \/ MarkProbeSuccess(p) \/ ProbeFailing(p)
    BY <1>2, UpdateWriteOn, ReplaceForKeyOn, SwapOn, ReportOn, ReportStateOn, MarkProbeSuccessOn,
       ProbeFailingOn
  <1>3. CASE KeepWithModels(p) \/ ListState(p) \/ ListEnabled(p) \/ ProbeNext(p)
    BY <1>3, KeepWithModelsOn, ListStateOn, ListEnabledOn, ProbeNextOn
  <1> QED
    BY <1>1, <1>2, <1>3 DEF Step

LEMMA BeginSerial ==
  ASSUME SerialInv, NEW p \in Workers, Quiet, Begin(p)
  PROVE  JobsSerial' /\ HealthSerial'
  <1>1. Alone(p)
    BY DEF Quiet, Alone, Idle
  <1>2. GoesOn(p)
    BY CreateOn, UpdateReadOn, DeleteOn, ProbeOn, ListOn DEF Begin
  <1>3. Plain(p)
    BY BeginPlain DEF SerialInv, Inv
  <1>4. JobsSerial'
    BY <1>1, <1>2, <1>3, OthersIdle DEF SerialInv, Plain
  <1>5. HealthSerial'
    BY <1>3, PlainCalls, PlainRows DEF HealthSerial
  <1> QED
    BY <1>4, <1>5

LEMMA StepSerial ==
  ASSUME SerialInv, NEW p \in Workers, Step(p)
  PROVE  JobsSerial' /\ HealthSerial'
  <1>1. Alone(p) /\ SerialJob(job[p])
    BY StepBusy DEF SerialInv, JobsSerial
  <1>2. GoesOn(p)
    BY <1>1, StepOn
  <1>3. HeldGrows
    BY StoreStep DEF SerialInv, Inv, Next, Proceed
  <1>4. CASE PlainStep(p)
    <2>1. Plain(p)
      BY <1>3, <1>4, StepPlain DEF SerialInv, Inv
    <2>2. JobsSerial'
      BY <1>1, <1>2, <2>1, OthersIdle DEF SerialInv, Plain
    <2>3. HealthSerial'
      BY <1>1, <1>4, <2>1, PlainCalls, PlainRows DEF HealthSerial
    <2> QED
      BY <2>2, <2>3
  <1>5. CASE ListFails(p) \/ MarkProbeSuccess(p) \/ ProbeFailing(p)
    <2>1. (\E pcs : JobMoves(p, pcs)) \/ UNCHANGED job
      BY <1>5, ListFailsStep, MarkProbeSuccessStep, ProbeFailingStep DEF SerialInv
    <2>2. HealthSerial'
      BY <1>1, <1>5, MarkingSerial
    <2>3. ASSUME UNCHANGED job PROVE JobsSerial'
      <3>1. UNCHANGED <<keys, keyModels, catalog>>
        BY <1>5 DEF ListFails, MarkProbeSuccess, ProbeFailing, storeVars
      <3> QED
        BY <2>3, <3>1, SameSerial DEF SerialInv
    <2>4. ASSUME NEW pcs, JobMoves(p, pcs) PROVE JobsSerial'
      BY <1>1, <1>2, <2>4, OthersIdle DEF SerialInv
    <2> QED
      BY <2>1, <2>2, <2>3, <2>4
  <1> QED
    BY <1>4, <1>5 DEF Step, PlainStep

LEMMA HangupSerial ==
  ASSUME SerialInv, NEW p \in Workers, Hangup(p)
  PROVE  JobsSerial' /\ HealthSerial'
  <1>1. Alone(p)
    BY DEF Hangup, SerialInv, JobsSerial, Idle
  <1>2. Sound'
    BY DEF Hangup, Sound
  <1>3. GoesOn(p)
    BY <1>2, FinishOn DEF Hangup, SerialInv, Inv
  <1>4. JobsSerial'
    BY <1>1, <1>3, HangupStep, OthersIdle DEF SerialInv
  <1>5. /\ job'[p].pc = "idle"
        /\ \A q \in Workers \ {p} : job'[q] = job[q] /\ mark'[q] = mark[q]
    BY DEF Hangup, Finish, NoJob, SerialInv, Inv, JobsOK, H!TypeOK
  <1>6. \A k \in Ids : H!HasRow(k)' => Exists(k)'
    BY RowsStay DEF Hangup, storeVars, Exists, SerialInv
  <1>7. HealthSerial'
    BY <1>5, <1>6 DEF SerialInv, HealthSerial
  <1> QED
    BY <1>4, <1>7

LEMMA RestartSerial ==
  ASSUME SerialInv, Restart
  PROVE  JobsSerial' /\ HealthSerial'
  <1>1. job' = BootJobs /\ catalog' = Current /\ keys' = keys /\ keyModels' = keyModels
    BY DEF Restart, storeVars
  <1>2. Sound'
    <2>1. Current' = Current
      BY <1>1 DEF Current, EnabledKeys, Enabled, Derive
    <2> QED
      BY <1>1, <2>1 DEF Sound
  <1>3. ASSUME NEW p \in Workers
        PROVE  /\ job'[p].pc \in {"idle", "list_enabled"}
               /\ job'[p].pc = "list_enabled" => p = Startup /\ job'[p].op = "startup"
               /\ job'[p].todo = NoTodo
    BY <1>1 DEF NoJob, BootJobs
  <1>4. \A p \in Workers : ~Idle(p)' => Alone(p)'
    <2>1. \A p \in Workers : job'[p].pc # "idle" => p = Startup
      BY <1>3
    <2> QED
      BY <2>1 DEF Alone, Idle
  <1>5. \A p \in Workers : ~Idle(p)' => SerialJob(job[p])'
    BY <1>2, <1>3, NothingIn DEF Idle, SerialJob, HasKey, Works
  <1>6. \A k \in Ids : H!HasRow(k)' => Exists(k)'
    BY <1>1, RowsStay DEF Restart, Exists, SerialInv
  <1> QED
    BY <1>2, <1>3, <1>4, <1>5, <1>6 DEF JobsSerial, HealthSerial, Quiet

LEMMA SerialIsNext == SerialNext => Next
  BY DEF SerialNext, Next

LEMMA SerialStep == SerialInv /\ [SerialNext]_registryVars => SerialInv'
  <1> SUFFICES ASSUME SerialInv, [SerialNext]_registryVars PROVE SerialInv'
    OBVIOUS
  <1>1. Inv'
    BY SerialIsNext, InvStep DEF SerialInv
  <1>2. ASSUME UNCHANGED <<keys, keyModels, catalog, job>>, UNCHANGED <<keyState, mark>>
        PROVE  JobsSerial' /\ HealthSerial'
    <2>1. HealthSerial'
      BY <1>2, RowsStay DEF SerialInv, HealthSerial, Exists
    <2> QED
      BY <1>2, <2>1, SameSerial DEF SerialInv
  <1>3. ASSUME NEW p \in Procs, (Quiet /\ Begin(p)) \/ Hangup(p)
        PROVE  JobsSerial' /\ HealthSerial'
    <2>1. p \in Workers
      BY DEF Workers
    <2> QED
      BY <1>3, <2>1, BeginSerial, HangupSerial
  <1>4. ASSUME NEW p \in Workers, Step(p) PROVE JobsSerial' /\ HealthSerial'
    BY <1>4, StepSerial
  <1>5. ASSUME Restart PROVE JobsSerial' /\ HealthSerial'
    BY <1>5, RestartSerial
  <1>6. ASSUME Tick \/ UNCHANGED registryVars PROVE JobsSerial' /\ HealthSerial'
    BY <1>2, <1>6 DEF Tick, H!Tick, storeVars, registryVars
  <1>7. JobsSerial' /\ HealthSerial'
    BY <1>3, <1>4, <1>5, <1>6 DEF SerialNext, Proceed
  <1> QED
    BY <1>1, <1>7 DEF SerialInv

LEMMA SerialInit == Init => SerialInv
  <1> SUFFICES ASSUME Init PROVE SerialInv
    OBVIOUS
  <1>1. Inv
    BY InvInit
  <1>2. /\ job = BootJobs /\ catalog = NoModels /\ mark = [p \in Workers |-> H!NoCall]
        /\ keyState = [k \in Ids |-> H!AbsentRow]
    BY DEF Init, H!Init
  <1>3. Sound
    BY <1>2, NothingIn DEF Sound
  <1>4. ASSUME NEW p \in Workers
        PROVE  /\ job[p].pc \in {"idle", "list_enabled"}
               /\ job[p].pc = "list_enabled" => p = Startup /\ job[p].op = "startup"
               /\ job[p].todo = NoTodo
    BY <1>2 DEF NoJob, BootJobs
  <1>5. \A p \in Workers : ~Idle(p) => Alone(p)
    BY <1>4 DEF Alone, Idle
  <1>6. \A p \in Workers : ~Idle(p) => SerialJob(job[p])
    BY <1>3, <1>4, NothingIn DEF Idle, SerialJob, HasKey, Works
  <1>7. \A k \in Ids : ~H!HasRow(k)
    BY <1>2 DEF H!HasRow, H!AbsentRow
  <1> QED
    BY <1>1, <1>3, <1>4, <1>5, <1>6, <1>7 DEF SerialInv, JobsSerial, HealthSerial

LEMMA SerialInvariant == SerialSpec => []SerialInv
  BY SerialInit, SerialStep, PTL DEF SerialSpec

(* An administrator who waits for every answer never leaves a health row   *)
(* without its key, even if the client goes away or the process dies in    *)
(* the middle of a handler.                                                *)
THEOREM NoRowsLeftBehind == SerialSpec => []NoOrphanedHealth
  <1>1. SerialInv => NoOrphanedHealth
    BY DEF SerialInv, HealthSerial, NoOrphanedHealth
  <1> QED
    BY <1>1, SerialInvariant, PTL

(* If moreover no client goes away, the catalog lists in the end only keys *)
(* that exist, are enabled and have the model: whatever order the handlers *)
(* run in, whichever probes fail and however often the process starts.     *)
THEOREM CatalogSoundWhenQuiet ==
  ASSUME Impatient = {}
  PROVE  SerialSpec => []QuietCatalogSound
  <1>1. SerialInv => QuietCatalogSound
    BY DEF SerialInv, JobsSerial, Sound, QuietCatalogSound
  <1> QED
    BY <1>1, SerialInvariant, PTL

(* A PUT changes the fields that its body names and no other, as nobody    *)
(* else writes the row between its read and its write.                     *)
KeepsOthers ==
    \A p \in Workers :
        LET k == job[p].key
            q == job[p].patch
        IN  UpdateWrite(p) /\ Exists(k) =>
                /\ q.enabled = Same => keys'[k].enabled = keys[k].enabled
                /\ q.cred = Same => keys'[k].cred = keys[k].cred

LEMMA UpdateKeeps == SerialInv => KeepsOthers
  <1> SUFFICES ASSUME SerialInv, NEW p \in Workers, UpdateWrite(p), Exists(job[p].key)
               PROVE  LET k == job[p].key
                          q == job[p].patch
                      IN  /\ q.enabled = Same => keys'[k].enabled = keys[k].enabled
                          /\ q.cred = Same => keys'[k].cred = keys[k].cred
    BY DEF KeepsOthers
  <1>1. job[p].pc = "write" /\ SerialJob(job[p])
    BY DEF UpdateWrite, At, SerialInv, JobsSerial, Idle
  <1>2. job[p].key \in Ids /\ keys \in [Ids -> Key]
    BY <1>1 DEF SerialInv, Inv, JobsOK, GoodJob, HasKey, Works, StoreOK
  <1>3. job[p].row = Merge(keys[job[p].key], job[p].patch)
    BY <1>1 DEF SerialJob
  <1>4. keys'[job[p].key] = Merge(keys[job[p].key], job[p].patch)
    BY <1>2, <1>3 DEF UpdateWrite
  <1> QED
    BY <1>4 DEF Merge, Row

(* So, with one administrator, no PUT touches what its body leaves out.     *)
THEOREM UpdatesKeepOthers == SerialSpec => UpdateKeepsOthers
  <1>1. SerialInv /\ [SerialNext]_registryVars => [KeepsOthers]_registryVars
    BY UpdateKeeps
  <1> QED
    BY <1>1, SerialInvariant, PTL DEF SerialSpec, UpdateKeepsOthers, KeepsOthers

-----------------------------------------------------------------------------
LEMMA Ranks ==
  /\ Rank("idle") = 0 /\ Rank("next") = 1 /\ Rank("states") = 1 /\ Rank("state") = 1
  /\ Rank("report") = 2 /\ Rank("with_models") = 2 /\ Rank("swap") = 3 /\ Rank("rmodels") = 4
  /\ Rank("rkeys") = 5 /\ Rank("failing") = 5 /\ Rank("marking") = 6 /\ Rank("mark") = 7
  /\ Rank("replace") = 8 /\ Rank("list") = 9 /\ Rank("fetch") = 10 /\ Rank("ensure") = 11
  /\ Rank("reread") = 12 /\ Rank("write") = 13 /\ Rank("list_enabled") = 16 * MaxId + 2
  BY DEF Rank

LEMMA RanksNat ==
  /\ MaxId \in Nat
  /\ \A pc \in Pcs : Rank(pc) \in Nat
  /\ \A pc \in {"idle", "ensured", "again", "read"} : CallRank(pc) \in 0 .. 3
  <1>1. MaxId \in Nat /\ 16 * MaxId + 2 \in Nat
    BY RegistryAssumption
  <1>2. \A pc \in Pcs : Rank(pc) \in Nat
    BY <1>1, Ranks DEF Pcs
  <1> QED
    BY <1>1, <1>2 DEF CallRank

LEMMA LeftCounted ==
  ASSUME JobsOK, NEW p \in Workers
  PROVE  /\ Left(p) \subseteq Ids /\ IsFiniteSet(Left(p))
         /\ Cardinality(Left(p)) \in Nat /\ Cardinality(Left(p)) <= MaxId
  <1>1. IsFiniteSet(Ids) /\ Cardinality(Ids) = MaxId
    BY RegistryAssumption, FS_Interval DEF Ids
  <1>2. Left(p) \in SUBSET Ids
    BY DEF Left
  <1> QED
    BY <1>1, <1>2, FS_Subset, FS_CardinalityType

LEMMA WorkNat ==
  ASSUME JobsOK, H!TypeOK, NEW p \in Workers
  PROVE  Work(p) \in Nat
  <1>1. job[p].pc \in Pcs /\ mark[p].pc \in {"idle", "ensured", "again", "read"}
    BY JobFields DEF JobsOK, H!TypeOK, H!Call
  <1>2. Rank(job[p].pc) \in Nat /\ CallRank(mark[p].pc) \in Nat
    BY <1>1, RanksNat
  <1> QED
    BY <1>2, LeftCounted DEF Work

(* A job that goes to a place of a smaller rank, with no more keys left.   *)
LEMMA Abates ==
  ASSUME Inv, JobsOK', NEW p \in Workers,
         Left(p)' \subseteq Left(p), job'[p].pc # "failing",
         Rank(job'[p].pc) < Rank(job[p].pc)
  PROVE  Work(p)' < Work(p)
  <1>1. /\ Cardinality(Left(p)) \in Nat /\ Cardinality(Left(p))' \in Nat
        /\ IsFiniteSet(Left(p)) /\ IsFiniteSet(Left(p)')
    <2>1. IsFiniteSet(Left(p)) /\ Cardinality(Left(p)) \in Nat
      BY LeftCounted DEF Inv
    <2>2. IsFiniteSet(Left(p)') /\ Cardinality(Left(p)') \in Nat
      BY <2>1, FS_Subset, FS_CardinalityType
    <2> QED
      BY <2>1, <2>2
  <1>2. Cardinality(Left(p)') <= Cardinality(Left(p))
    BY <1>1, FS_Subset
  <1>3. job[p].pc \in Pcs /\ job'[p].pc \in Pcs
    BY JobFields DEF Inv, JobsOK
  <1>4. Rank(job[p].pc) \in Nat /\ Rank(job'[p].pc) \in Nat
    BY <1>3, RanksNat
  <1>5. CallRank(mark[p].pc) \in Nat
    BY RanksNat DEF Inv, H!TypeOK, H!Call
  <1>6. Work(p)' = 16 * Cardinality(Left(p)') + Rank(job'[p].pc)
    BY <1>1, <1>4 DEF Work, Rank
  <1> QED
    BY <1>1, <1>2, <1>4, <1>5, <1>6 DEF Work

LEMMA LeftStays ==
  ASSUME NEW p \in Workers, job'[p].todo = job[p].todo
  PROVE  Left(p)' \subseteq Left(p)
  BY DEF Left

LEMMA NoJobLeft ==
  ASSUME JobsOK, NEW p \in Workers, Finish(p)
  PROVE  Left(p)' \subseteq Left(p) /\ job'[p].pc = "idle"
  <1>1. job'[p] = NoJob
    BY DEF Finish, JobsOK
  <1>2. NoJob.todo = NoTodo /\ NoJob.pc = "idle"
    BY DEF NoJob
  <1>3. Left(p)' = {k \in Ids : NoTodo[k].exists}
    BY <1>1, <1>2 DEF Left
  <1> QED
    BY <1>1, <1>2, <1>3, NothingIn

LEMMA AfterProbeLeft ==
  ASSUME JobsOK, NEW p \in Workers, NEW ok \in BOOLEAN, HasKey(job[p]), AfterProbe(p, ok)
  PROVE  Left(p)' \subseteq Left(p) /\ job'[p].pc \in {"idle", "next", "report", "state"}
  <1>1. CASE Finish(p)
    BY <1>1, NoJobLeft
  <1>2. CASE ~Finish(p)
    <2> DEFINE op == job[p].op
               pc == CASE op = "startup" -> "next"
                       [] op = "probe"   -> "report"
                       [] op = "update"  -> "state"
               j  == [NoJob EXCEPT !.op = op, !.key = job[p].key, !.todo = job[p].todo,
                                   !.pc = pc]
    <2>1. job[p].op \in Ops \ {"none", "list"} /\ job[p] \in Job
      BY JobFields DEF JobsOK, GoodJob, HasKey
    <2>2. op \in {"startup", "probe", "update"}
      BY <1>2, <2>1 DEF AfterProbe, Ops
    <2>3. pc \in {"next", "report", "state"}
      <3>1. CASE op = "startup"
        BY <3>1, Zenon
      <3>2. CASE op = "probe"
        BY <3>2, Zenon
      <3>3. CASE op = "update"
        BY <3>3, Zenon
      <3> QED
        BY <2>2, <3>1, <3>2, <3>3
    <2>4. job' = [job EXCEPT ![p] = j]
      BY <1>2 DEF AfterProbe
    <2>5. job'[p] = j
      BY <2>4 DEF JobsOK
    <2> HIDE DEF pc
    <2>6. j.pc = pc /\ j.todo = job[p].todo
      BY DEF NoJob
    <2> HIDE DEF j, op
    <2> QED
      BY <2>3, <2>5, <2>6, LeftStays
  <1> QED
    BY <1>1, <1>2

(* The steps that go on with what they have.                               *)
LEMMA GotoAbates ==
  ASSUME Inv, JobsOK', NEW p \in Workers, NEW pc \in Pcs \ {"failing"}, Goto(p, pc),
         Rank(pc) < Rank(job[p].pc)
  PROVE  Work(p)' < Work(p)
  <1>1. job'[p].pc = pc /\ job'[p].todo = job[p].todo
    BY DEF Goto, Inv, JobsOK, Job
  <1> QED
    BY <1>1, LeftStays, Abates

LEMMA FinishAbates ==
  ASSUME Inv, JobsOK', NEW p \in Workers, Finish(p), 0 < Rank(job[p].pc)
  PROVE  Work(p)' < Work(p)
  <1>1. Left(p)' \subseteq Left(p) /\ job'[p].pc = "idle"
    BY NoJobLeft DEF Inv
  <1> QED
    BY <1>1, Ranks, Abates

LEMMA AfterProbeAbates ==
  ASSUME Inv, JobsOK', NEW p \in Workers, NEW ok \in BOOLEAN, HasKey(job[p]),
         AfterProbe(p, ok), 2 < Rank(job[p].pc)
  PROVE  Work(p)' < Work(p)
  <1>1. Left(p)' \subseteq Left(p) /\ job'[p].pc \in {"idle", "next", "report", "state"}
    BY AfterProbeLeft DEF Inv
  <1>2. Rank(job'[p].pc) \in 0 .. 2
    BY <1>1, Ranks
  <1>3. Rank(job[p].pc) \in Nat
    BY RanksNat, JobFields DEF Inv, JobsOK
  <1> QED
    BY <1>1, <1>2, <1>3, Abates

LEMMA PlainAbates ==
  ASSUME Inv, JobsOK', NEW p \in Workers, PlainStep(p), ~ListState(p), ~ListEnabled(p),
         ~ProbeNext(p)
  PROVE  Work(p)' < Work(p)
  <1>1. CASE EnsureState(p)
    <2>1. job[p].pc = "ensure" /\ (Goto(p, "fetch") \/ Goto(p, "rkeys"))
      BY <1>1 DEF EnsureState, At
    <2> QED
      BY <2>1, Ranks, GotoAbates DEF Pcs
  <1>2. CASE UpdateWrite(p)
    <2>1. job[p].pc = "write" /\ (Goto(p, "reread") \/ Finish(p))
      BY <1>2 DEF UpdateWrite, At
    <2> QED
      BY <2>1, Ranks, GotoAbates, FinishAbates DEF Pcs
  <1>3. CASE Report(p)
    <2>1. job[p].pc = "report" /\ (Goto(p, "state") \/ Finish(p))
      BY <1>3 DEF Report, At
    <2> QED
      BY <2>1, Ranks, GotoAbates, FinishAbates DEF Pcs
  <1>4. CASE ReportState(p)
    <2>1. job[p].pc = "state" /\ Finish(p)
      BY <1>4 DEF ReportState, At
    <2> QED
      BY <2>1, Ranks, FinishAbates
  <1>5. CASE Swap(p)
    <2>1. job[p].pc = "swap" /\ HasKey(job[p]) /\ AfterProbe(p, TRUE)
      BY <1>5 DEF Swap, At, HasKey, Works
    <2>2. 2 < Rank(job[p].pc)
      BY <2>1, Ranks
    <2> QED
      BY <2>1, <2>2, AfterProbeAbates, Zenon
  <1>6. CASE Reread(p)
    <2>1. /\ job[p].pc = "reread"
          /\ \/ Finish(p)
             \/ job'[p].pc = "ensure" /\ job'[p].todo = job[p].todo
      BY <1>6 DEF Reread, At, Inv, JobsOK, Job
    <2> QED
      BY <2>1, Ranks, FinishAbates, LeftStays, Abates
  <1>7. CASE Fetch(p)
    <2>1. job[p].pc = "fetch" /\ HasKey(job[p])
      BY <1>7 DEF Fetch, At, HasKey, Works
    <2>2. CASE AfterProbe(p, FALSE)
      <3>1. 2 < Rank(job[p].pc)
        BY <2>1, Ranks
      <3> QED
        BY <2>1, <2>2, <3>1, AfterProbeAbates, Zenon
    <2>3. CASE ~AfterProbe(p, FALSE)
      <3>1. job'[p].pc = "list" /\ job'[p].todo = job[p].todo
        BY <1>7, <2>3 DEF Fetch, Inv, JobsOK, Job
      <3> QED
        BY <2>1, <3>1, Ranks, LeftStays, Abates
    <2> QED
      BY <2>2, <2>3
  <1>8. CASE ListModels(p)
    <2>1. job[p].pc = "list" /\ job'[p].pc = "replace" /\ job'[p].todo = job[p].todo
      BY <1>8 DEF ListModels, At, Inv, JobsOK, Job
    <2> QED
      BY <2>1, Ranks, LeftStays, Abates
  <1>9. CASE ReplaceForKey(p)
    <2>1. job[p].pc = "replace" /\ job'[p].pc = "mark" /\ job'[p].todo = job[p].todo
      BY <1>9 DEF ReplaceForKey, At, Inv, JobsOK, Job
    <2> QED
      BY <2>1, Ranks, LeftStays, Abates
  <1>10. CASE ReadKeys(p)
    <2>1. job[p].pc = "rkeys" /\ job'[p].pc = "rmodels" /\ job'[p].todo = job[p].todo
      BY <1>10 DEF ReadKeys, At, Inv, JobsOK, Job
    <2> QED
      BY <2>1, Ranks, LeftStays, Abates
  <1>11. CASE ReadModels(p)
    <2>1. job[p].pc = "rmodels" /\ job'[p].pc = "swap" /\ job'[p].todo = job[p].todo
      BY <1>11 DEF ReadModels, At, Inv, JobsOK, Job
    <2> QED
      BY <2>1, Ranks, LeftStays, Abates
  <1>12. CASE KeepWithModels(p)
    <2> DEFINE todo == [k \in Ids |-> IF job[p].todo[k].enabled /\ keyModels[k] # {}
                                      THEN job[p].todo[k] ELSE AbsentKey]
    <2>1. job[p].pc = "with_models" /\ job'[p].pc = "states" /\ job'[p].todo = todo
      BY <1>12 DEF KeepWithModels, At, Inv, JobsOK, Job
    <2>2. \A k \in Ids : todo[k].exists => job[p].todo[k].exists
      BY DEF AbsentKey
    <2> HIDE DEF todo
    <2>3. Left(p)' \subseteq Left(p)
      BY <2>1, <2>2 DEF Left
    <2> QED
      BY <2>1, <2>3, Ranks, Abates
  <1> QED
    BY <1>1, <1>2, <1>3, <1>4, <1>5, <1>6, <1>7, <1>8, <1>9, <1>10, <1>11, <1>12 DEF PlainStep

(* The loops: one key less is left.                                        *)
LEMMA OneLess ==
  ASSUME JobsOK, NEW p \in Workers, Left(p) # {},
         job'[p].todo = [job[p].todo EXCEPT ![Least(Left(p))] = AbsentKey]
  PROVE  /\ Cardinality(Left(p)) \in Nat \ {0}
         /\ Cardinality(Left(p)') = Cardinality(Left(p)) - 1
  <1> PICK k \in Ids : k = Least(Left(p)) /\ k \in Left(p)
    <2>1. Left(p) \in SUBSET Ids
      BY DEF Left
    <2> QED
      BY <2>1, LeastIsOne
  <1>1. job[p].todo \in [Ids -> Key]
    BY JobFields DEF JobsOK
  <1>2. Left(p)' = Left(p) \ {k}
    BY <1>1 DEF Left, AbsentKey
  <1>3. Cardinality(Left(p)) \in Nat /\ Cardinality(Left(p)) # 0
    BY LeftCounted, FS_EmptySet
  <1> QED
    BY <1>2, <1>3, LeftCounted, FS_RemoveElement

LEMMA LoopsAbate ==
  ASSUME Inv, JobsOK', NEW p \in Workers, ListState(p) \/ ListEnabled(p) \/ ProbeNext(p)
  PROVE  Work(p)' < Work(p)
  <1>1. job[p] \in Job /\ job \in [Workers -> Job] /\ JobsOK
    BY DEF Inv, JobsOK
  <1>2. CASE Finish(p)
    <2>1. 0 < Rank(job[p].pc)
      BY Ranks, RanksNat DEF ListState, ListEnabled, ProbeNext, At
    <2> QED
      BY <1>2, <2>1, FinishAbates
  <1>3. ASSUME ListState(p), ~Finish(p) PROVE Work(p)' < Work(p)
    <2>1. /\ job[p].pc = "states" /\ Left(p) # {}
          /\ job' = [job EXCEPT ![p].todo[Least(Left(p))] = AbsentKey]
      BY <1>3 DEF ListState, At
    <2>2. /\ job'[p].pc = "states"
          /\ job'[p].todo = [job[p].todo EXCEPT ![Least(Left(p))] = AbsentKey]
      BY <1>1, <2>1 DEF Job
    <2>3. Work(p) = 16 * Cardinality(Left(p)) + 1
      BY <1>1, <2>1, <2>2, OneLess, Ranks DEF Work
    <2>4. Work(p)' = 16 * (Cardinality(Left(p)) - 1) + 1
      BY <1>1, <2>1, <2>2, OneLess, Ranks DEF Work
    <2> QED
      BY <1>1, <2>1, <2>2, <2>3, <2>4, OneLess
  <1>4. ASSUME ProbeNext(p), ~Finish(p) PROVE Work(p)' < Work(p)
    <2>1. /\ job[p].pc = "next" /\ Left(p) # {}
          /\ job' = [job EXCEPT ![p].key = Least(Left(p)),
                                ![p].row = job[p].todo[Least(Left(p))],
                                ![p].todo[Least(Left(p))] = AbsentKey, ![p].pc = "list"]
      BY <1>4 DEF ProbeNext, At
    <2>2. /\ job'[p].pc = "list"
          /\ job'[p].todo = [job[p].todo EXCEPT ![Least(Left(p))] = AbsentKey]
      BY <1>1, <2>1 DEF Job
    <2>3. Work(p) = 16 * Cardinality(Left(p)) + 1
      BY <1>1, <2>1, <2>2, OneLess, Ranks DEF Work
    <2>4. Work(p)' = 16 * (Cardinality(Left(p)) - 1) + 9
      BY <1>1, <2>1, <2>2, OneLess, Ranks DEF Work
    <2> QED
      BY <1>1, <2>1, <2>2, <2>3, <2>4, OneLess
  <1>5. ASSUME ListEnabled(p) PROVE Work(p)' < Work(p)
    <2>1. job[p].pc = "list_enabled" /\ job'[p].pc = "next"
      BY <1>1, <1>5 DEF ListEnabled, At, Job
    <2>2. Cardinality(Left(p)') \in Nat /\ Cardinality(Left(p)') <= MaxId
      <3>1. Left(p)' \in SUBSET Ids
        BY DEF Left
      <3>2. IsFiniteSet(Ids) /\ Cardinality(Ids) = MaxId
        BY RegistryAssumption, FS_Interval DEF Ids
      <3> QED
        BY <3>1, <3>2, FS_Subset, FS_CardinalityType
    <2>3. Work(p)' = 16 * Cardinality(Left(p)') + 1
      BY <2>1, <2>2, Ranks DEF Work
    <2>4. Work(p) = 16 * Cardinality(Left(p)) + 16 * MaxId + 2
      BY <1>1, <2>1, Ranks, RanksNat, LeftCounted DEF Work
    <2> QED
      BY <1>1, <2>2, <2>3, <2>4, RanksNat, LeftCounted
  <1> QED
    BY <1>2, <1>3, <1>4, <1>5

(* The calls: opened and waited for, they go on to their end.              *)
LEMMA MarkingAbates ==
  ASSUME Inv, JobsOK', NEW p \in Workers,
         ListFails(p) \/ MarkProbeSuccess(p) \/ ProbeFailing(p)
  PROVE  Work(p)' < Work(p)
  <1>1. /\ job[p] \in Job /\ job \in [Workers -> Job] /\ JobsOK
        /\ mark \in [Workers -> H!Call]
    BY DEF Inv, JobsOK, H!TypeOK
  <1>2. Cardinality(Left(p)) \in Nat
    BY <1>1, LeftCounted
  <1>3. CASE MarkProbeSuccess(p)
    <2>1. \/ job[p].pc = "mark" /\ Goto(p, "marking")
          \/ job[p].pc = "marking" /\ Goto(p, "rkeys")
      BY <1>3 DEF MarkProbeSuccess, At
    <2> QED
      BY <2>1, Ranks, GotoAbates DEF Pcs
  <1>4. CASE ListFails(p)
    <2>1. job[p].pc = "list" /\ Goto(p, "failing") /\ H!MarkBegin(p, job[p].key, "failure")
      BY <1>4 DEF ListFails, At
    <2>2. job'[p].pc = "failing" /\ job'[p].todo = job[p].todo
      BY <1>1, <2>1 DEF Goto, Job
    <2>3. mark'[p].pc = "ensured"
      BY <1>1, <2>1 DEF H!MarkBegin, H!Opened
    <2>4. Left(p)' = Left(p)
      BY <2>2 DEF Left
    <2>5. CallRank("ensured") = 3
      BY DEF CallRank
    <2>6. Work(p) = 16 * Cardinality(Left(p)) + 9
      BY <1>2, <2>1, Ranks DEF Work
    <2>7. Work(p)' = 16 * Cardinality(Left(p)') + 5 + 3
      BY <2>2, <2>3, <2>5, Ranks DEF Work
    <2> QED
      BY <1>2, <2>4, <2>6, <2>7
  <1>5. CASE ProbeFailing(p)
    <2>1. job[p].pc = "failing" /\ (H!MarkRecheck(p) \/ H!MarkRead(p) \/ H!MarkWrite(p))
      BY <1>5 DEF ProbeFailing, At
    <2>2. CASE mark'[p] = H!NoCall
      <3>1. AfterProbe(p, FALSE) /\ HasKey(job[p])
        BY <1>5, <2>1, <2>2 DEF ProbeFailing, HasKey, Works
      <3>2. 2 < Rank(job[p].pc)
        BY <2>1, Ranks
      <3> QED
        BY <3>1, <3>2, AfterProbeAbates, Zenon
    <2>3. CASE mark'[p] # H!NoCall
      <3>1. job' = job
        BY <1>5, <2>3 DEF ProbeFailing
      <3>2. \/ mark[p].pc = "ensured" /\ mark'[p].pc = "again"
            \/ mark[p].pc = "again" /\ mark'[p].pc = "read"
        BY <1>1, <2>1, <2>3 DEF H!MarkRecheck, H!MarkRead, H!MarkWrite, H!HasSeen, H!Call
      <3>3. CallRank("ensured") = 3 /\ CallRank("again") = 2 /\ CallRank("read") = 1
        BY DEF CallRank
      <3>4. CallRank(mark'[p].pc) = CallRank(mark[p].pc) - 1 /\ CallRank(mark[p].pc) \in Nat
        BY <3>2, <3>3
      <3>5. Work(p)' = 16 * Cardinality(Left(p)) + 5 + CallRank(mark'[p].pc)
        BY <2>1, <3>1, Ranks DEF Work, Left
      <3>6. Work(p) = 16 * Cardinality(Left(p)) + 5 + CallRank(mark[p].pc)
        BY <2>1, Ranks DEF Work
      <3> QED
        BY <1>2, <3>4, <3>5, <3>6
    <2> QED
      BY <2>2, <2>3
  <1> QED
    BY <1>3, <1>4, <1>5

LEMMA StepAbates ==
  ASSUME Inv, JobsOK', NEW p \in Workers, Step(p)
  PROVE  Work(p)' < Work(p)
  BY PlainAbates, LoopsAbate, MarkingAbates DEF Step, PlainStep

(* A step of p is none of the others.                                      *)
LEMMA OthersWork ==
  ASSUME Inv, NEW p \in Workers, Begin(p) \/ Step(p) \/ Hangup(p)
  PROVE  \A q \in Workers \ {p} : job'[q] = job[q] /\ mark'[q] = mark[q]
  <1>1. mark \in [Workers -> H!Call] /\ job \in [Workers -> Job]
    BY DEF Inv, JobsOK, H!TypeOK
  <1>2. ASSUME Begin(p) \/ PlainStep(p)
        PROVE  \A q \in Workers \ {p} : job'[q] = job[q] /\ mark'[q] = mark[q]
    <2>1. Plain(p)
      BY <1>2, BeginPlain, StepPlain, StoreStep DEF Inv, Next, Proceed, Step, PlainStep
    <2>2. \A j : job' = [job EXCEPT ![p] = j] => \A q \in Workers \ {p} : job'[q] = job[q]
      BY <1>1
    <2> QED
      BY <2>1, <2>2 DEF Plain, JobMoves
  <1>3. ASSUME ListFails(p) \/ MarkProbeSuccess(p) \/ ProbeFailing(p) \/ Hangup(p)
        PROVE  \A q \in Workers \ {p} : job'[q] = job[q] /\ mark'[q] = mark[q]
    <2>1. \A q \in Workers \ {p} : job'[q] = job[q]
      BY <1>1, <1>3 DEF ListFails, MarkProbeSuccess, ProbeFailing, Hangup, Goto, AfterProbe,
                        Finish
    <2>2. \A q \in Workers \ {p} : mark'[q] = mark[q]
      BY <1>1, <1>3 DEF ListFails, MarkProbeSuccess, ProbeFailing, Hangup, H!MarkBegin,
                        H!MarkReset, H!MarkRecheck, H!MarkRead, H!MarkWrite
    <2> QED
      BY <2>1, <2>2
  <1> QED
    BY <1>2, <1>3 DEF Step, PlainStep

(* Calls match their jobs.                                                 *)
Matches(j, m) ==
    /\ j.pc = "marking" => m.pc = "ensured" /\ m.outcome = "success"
    /\ j.pc = "failing" => \/ m.pc \in {"again", "read"}
                           \/ m.pc = "ensured" /\ m.outcome = "failure"

LEMMA MovesMatch ==
  ASSUME Inv, NEW p \in Workers, JobMoves(p, Calm)
  PROVE  Matches(job'[p], mark'[p])
  <1>1. job'[p].pc \in Calm
    BY DEF JobMoves, Inv, JobsOK
  <1> QED
    BY <1>1 DEF Matches, Calm

LEMMA MarkingMatches ==
  ASSUME Inv, CallsMatch, NEW p \in Workers,
         ListFails(p) \/ MarkProbeSuccess(p) \/ ProbeFailing(p)
  PROVE  Matches(job'[p], mark'[p])
  <1>1. job \in [Workers -> Job] /\ job[p] \in Job /\ mark \in [Workers -> H!Call] /\ JobsOK
    BY DEF Inv, JobsOK, H!TypeOK
  <1>2. ASSUME NEW pc \in Pcs, Goto(p, pc) PROVE job'[p].pc = pc
    BY <1>1, <1>2 DEF Goto, Job
  <1>3. ASSUME NEW o, H!MarkBegin(p, job[p].key, o)
        PROVE  mark'[p].pc = "ensured" /\ mark'[p].outcome = o
    BY <1>1, <1>3 DEF H!MarkBegin, H!Opened
  <1>4. CASE ListFails(p)
    <2>1. job'[p].pc = "failing"
      BY <1>2, <1>4 DEF ListFails, Pcs
    <2>2. mark'[p].pc = "ensured" /\ mark'[p].outcome = "failure"
      BY <1>3, <1>4 DEF ListFails
    <2> QED
      BY <2>1, <2>2 DEF Matches
  <1>5. CASE MarkProbeSuccess(p)
    <2>1. CASE H!MarkBegin(p, job[p].key, "success") /\ Goto(p, "marking")
      <3>1. job'[p].pc = "marking"
        BY <1>2, <2>1 DEF Pcs
      <3>2. mark'[p].pc = "ensured" /\ mark'[p].outcome = "success"
        BY <1>3, <2>1
      <3> QED
        BY <3>1, <3>2 DEF Matches
    <2>2. CASE Goto(p, "rkeys")
      BY <1>2, <2>2 DEF Pcs, Matches
    <2> QED
      BY <1>5, <2>1, <2>2 DEF MarkProbeSuccess
  <1>6. CASE ProbeFailing(p)
    <2>1. job[p].pc = "failing" /\ (H!MarkRecheck(p) \/ H!MarkRead(p) \/ H!MarkWrite(p))
      BY <1>6 DEF ProbeFailing, At
    <2>2. CASE mark'[p] = H!NoCall
      <3>1. AfterProbe(p, FALSE) /\ HasKey(job[p]) /\ held' = held
        BY <1>6, <2>1, <2>2 DEF ProbeFailing, HasKey, Works, storeVars
      <3>2. JobMoves(p, Calm)
        BY <1>1, <3>1, AfterProbeMoves
      <3> QED
        BY <3>2, MovesMatch
    <2>3. CASE mark'[p] # H!NoCall
      <3>1. mark'[p].pc \in {"again", "read"}
        BY <1>1, <2>1, <2>3 DEF H!MarkRecheck, H!MarkRead, H!MarkWrite, H!HasSeen, H!Call
      <3>2. job' = job
        BY <1>6, <2>3 DEF ProbeFailing
      <3> QED
        BY <2>1, <3>1, <3>2 DEF Matches
    <2> QED
      BY <2>2, <2>3
  <1> QED
    BY <1>4, <1>5, <1>6

LEMMA MatchStep == Inv /\ CallsMatch /\ [Next]_registryVars => CallsMatch'
  <1> SUFFICES ASSUME Inv, CallsMatch, [Next]_registryVars PROVE CallsMatch'
    OBVIOUS
  <1>1. \A q \in Workers : Matches(job[q], mark[q])
    BY DEF CallsMatch, Matches
  <1> SUFFICES ASSUME NEW q \in Workers PROVE Matches(job'[q], mark'[q])
    BY DEF CallsMatch, Matches
  <1>2. ASSUME NEW p \in Workers, Begin(p) \/ Step(p) \/ Hangup(p)
        PROVE  Matches(job'[q], mark'[q])
    <2>1. CASE q # p
      BY <1>1, <1>2, <2>1, OthersWork
    <2>2. CASE q = p
      <3>1. ASSUME Begin(p) \/ PlainStep(p) PROVE Matches(job'[p], mark'[p])
        <4>1. Plain(p)
          BY <3>1, BeginPlain, StepPlain, StoreStep DEF Inv
        <4> QED
          BY <4>1, MovesMatch DEF Plain
      <3>2. ASSUME Hangup(p) PROVE Matches(job'[p], mark'[p])
        BY <3>2, HangupStep, MovesMatch
      <3> QED
        BY <1>2, <2>2, <3>1, <3>2, MarkingMatches DEF Step, PlainStep
    <2> QED
      BY <2>1, <2>2
  <1>3. CASE Restart
    <2>1. job'[q].pc \in Calm
      BY <1>3, BootJobsGood DEF Restart
    <2> QED
      BY <2>1 DEF Matches, Calm
  <1>4. CASE Tick \/ UNCHANGED registryVars
    BY <1>1, <1>4 DEF Tick, H!Tick, registryVars
  <1>5. \A p \in Procs : p \in Workers
    BY DEF Workers
  <1> QED
    BY <1>2, <1>3, <1>4, <1>5 DEF Next, Proceed

LEMMA MatchInit == Init => CallsMatch
  <1> SUFFICES ASSUME Init, NEW p \in Workers PROVE Matches(job[p], mark[p])
    BY DEF CallsMatch, Matches
  <1>1. job[p].pc \in Calm
    BY BootJobsGood DEF Init
  <1> QED
    BY <1>1 DEF Matches, Calm

(* Every variable of the registry keeps its type. A job has a MarkProbe    *)
(* call open exactly while it waits for one, and it is the one that it     *)
(* made: the next statement of the call is its next step, so no handler    *)
(* waits for a call that is over or is another's.                          *)
THEOREM RegistryTyped == Spec => []TypeOK
  BY Invariant, InvTells, MatchInit, MatchStep, PTL DEF Spec

(* The work that is left, of a handler that runs, goes down to nothing.    *)
Advances(p) ==
    /\ Step(p) => Work(p)' < Work(p)
    /\ ~Step(p) => Work(p)' = Work(p) \/ job[p].pc = "idle" \/ job'[p].pc = "idle"
                     \/ boots' # boots

LEMMA NextAdvances == Inv /\ Inv' /\ Next => \A p \in Workers : Advances(p)
  <1> SUFFICES ASSUME Inv, Inv', Next, NEW q \in Workers PROVE Advances(q)
    OBVIOUS
  <1>1. ASSUME Step(q) PROVE Work(q)' < Work(q)
    BY <1>1, StepAbates DEF Inv
  <1>2. ASSUME job'[q] = job[q], mark'[q] = mark[q] PROVE Work(q)' = Work(q)
    BY <1>2 DEF Work, Left
  <1>3. ASSUME NEW p \in Workers, p # q, Begin(p) \/ Step(p) \/ Hangup(p)
        PROVE  Work(q)' = Work(q)
    BY <1>2, <1>3, OthersWork
  <1>4. ASSUME Begin(q) PROVE job[q].pc = "idle"
    BY <1>4 DEF Begin, Create, UpdateRead, Delete, Probe, List, At
  <1>5. ASSUME Hangup(q) PROVE job'[q].pc = "idle"
    BY <1>5 DEF Hangup, Finish, NoJob, Inv, JobsOK
  <1>6. ASSUME Restart PROVE boots' # boots
    BY <1>6 DEF Restart, Inv, CatalogOK
  <1>7. ASSUME Tick PROVE Work(q)' = Work(q)
    BY <1>2, <1>7 DEF Tick, H!Tick
  <1>8. \A p \in Procs : p \in Workers
    BY DEF Workers
  <1> QED
    BY <1>1, <1>3, <1>4, <1>5, <1>6, <1>7, <1>8 DEF Next, Proceed, Advances

(* Whatever the others do to its key, a handler runs out of steps: each    *)
(* step leaves it less of a natural number, which no step of another       *)
(* handler, no delete and no tick changes.                                 *)
THEOREM HandlersRunOut ==
  /\ Spec => []\A p \in Workers : Work(p) \in Nat
  /\ Spec => HandlersAdvance
  <1>1. Inv => \A p \in Workers : Work(p) \in Nat
    BY WorkNat DEF Inv
  <1>2. Inv /\ Inv' /\ [Next]_registryVars => [\A p \in Workers : Advances(p)]_registryVars
    BY NextAdvances
  <1>3. [][\A p \in Workers : Advances(p)]_registryVars => HandlersAdvance
    <2>1. (\A p \in Workers : Advances(p)) =>
             \A p \in Workers :
               /\ Step(p) => Work(p)' < Work(p)
               /\ ~Step(p) => Work(p)' = Work(p) \/ job[p].pc = "idle" \/ job'[p].pc = "idle"
                                \/ boots' # boots
      BY DEF Advances
    <2> QED
      BY <2>1, PTL DEF HandlersAdvance
  <1> QED
    BY <1>1, <1>2, <1>3, Invariant, PTL DEF Spec

-----------------------------------------------------------------------------
(* Many administrators: what the catalog lists, if rebuilds do not overlap. *)

(* A rebuild of the catalog runs from its first select to its swap, and    *)
(* those of two handlers may overlap.                                      *)
Rebuilding(p) == job[p].pc \in {"rmodels", "swap"}
RebuildsApart == \A p, q \in Workers : Rebuilding(p) /\ Rebuilding(q) => p = q

(* A handler that will rebuild the catalog before it ends; one that has    *)
(* written key k and will rebuild it if that disabled the key; one that    *)
(* will probe key k, and so rebuild the catalog or record a failure.       *)
Rebuilds(j)    == j.pc \in {"mark", "marking", "rkeys"}
Disables(j, k) == /\ j.op = "update" /\ j.key = k /\ Exists(k)
                  /\ j.pc = "reread" \/ (j.pc = "ensure" /\ ~j.row.enabled)
Probes(j, k)   == /\ j.key = k
                  /\ \/ j.pc \in {"reread", "fetch", "list", "replace", "failing"}
                     \/ j.pc = "ensure" /\ (j.op = "create" \/ j.row.enabled)

WillRebuild   == \E q \in Workers : Rebuilds(job[q])
WillDrop(k)   == WillRebuild \/ \E q \in Workers : Disables(job[q], k)
WillList(k)   == \/ WillRebuild
                 \/ recorded[k] > 0
                 \/ \E q \in Workers : Probes(job[q], k)

(* Where catalog C and the tables part, a handler that runs answers for it. *)
Owed(C) ==
    \A m \in Models, k \in Ids :
        /\ k \in C[m] /\ m \notin keyModels[k] => WillRebuild
        /\ k \in C[m] /\ ~Enabled(k) => WillDrop(k)
        /\ k \notin C[m] /\ Enabled(k) /\ m \in keyModels[k] => WillList(k)

ViewOwed(V) ==
    \A k \in Ids :
        /\ k \in V /\ ~Enabled(k) => WillDrop(k)
        /\ k \notin V /\ Enabled(k) => keyModels[k] = {} \/ WillList(k)

Debts ==
    /\ (\A p \in Workers : ~Rebuilding(p)) => Owed(catalog)
    /\ \A p \in Workers : job[p].pc = "rmodels" => ViewOwed(job[p].view)
    /\ \A p \in Workers : job[p].pc = "swap" => Owed(job[p].next)

(* Who will rebuild the catalog answers for all of it.                     *)
LEMMA RebuilderOwesNext ==
  ASSUME job \in [Workers -> Job], NEW p \in Workers, NEW j, job' = [job EXCEPT ![p] = j],
         Rebuilds(j)
  PROVE  Debts'
  <1>1. WillRebuild'
    BY DEF WillRebuild
  <1> QED
    BY <1>1 DEF Debts, Owed, ViewOwed, WillDrop, WillList

(* A step that changes neither tables nor catalog, of a handler that goes  *)
(* on to do what it owes.                                                  *)
LEMMA DebtsKept ==
  ASSUME job \in [Workers -> Job], Debts, NEW p \in Workers, NEW j, job' = [job EXCEPT ![p] = j],
         Frame, ~Rebuilds(job[p]), ~Rebuilding(p), j.pc \notin {"rmodels", "swap"},
         \A k \in Ids : recorded[k] > 0 => recorded'[k] > 0,
         \A k \in Ids : ~Enabled(k) /\ Disables(job[p], k) => Rebuilds(j) \/ Disables(j, k),
         \A k \in Ids : Enabled(k) /\ Probes(job[p], k)
                           => Rebuilds(j) \/ Probes(j, k) \/ recorded'[k] > 0
  PROVE  Debts'
  <1>1. /\ \A k \in Ids : Exists(k)' = Exists(k) /\ Enabled(k)' = Enabled(k)
        /\ keyModels' = keyModels /\ catalog' = catalog
    BY FrameSame DEF Frame
  <1>2. job'[p] = j /\ \A q \in Workers \ {p} : job'[q] = job[q]
    OBVIOUS
  <1>3. WillRebuild => WillRebuild'
    BY <1>2 DEF WillRebuild
  <1>4. ASSUME NEW k \in Ids, ~Enabled(k), WillDrop(k) PROVE WillDrop(k)'
    <2>1. ASSUME NEW q \in Workers, Disables(job[q], k)
          PROVE  Rebuilds(job'[q]) \/ Disables(job'[q], k)
      BY <1>2, <1>4, <2>1
    <2>2. \A q \in Workers : Disables(job'[q], k) => Disables(job[q], k)'
      BY <1>1 DEF Disables
    <2> QED
      BY <1>3, <1>4, <2>1, <2>2 DEF WillDrop, WillRebuild
  <1>5. ASSUME NEW k \in Ids, Enabled(k), WillList(k) PROVE WillList(k)'
    <2>1. ASSUME NEW q \in Workers, Probes(job[q], k)
          PROVE  Rebuilds(job'[q]) \/ Probes(job'[q], k) \/ recorded'[k] > 0
      BY <1>2, <1>5, <2>1
    <2> QED
      BY <1>3, <1>5, <2>1 DEF WillList, WillRebuild
  <1>6. \A q \in Workers : Rebuilding(q)' => q # p /\ Rebuilding(q) /\ job'[q] = job[q]
    BY <1>2 DEF Rebuilding
  <1>7. \A q \in Workers : Rebuilding(q) => Rebuilding(q)'
    BY <1>2 DEF Rebuilding
  <1>8. (\A q \in Workers : ~Rebuilding(q)') => Owed(catalog)'
    BY <1>1, <1>3, <1>4, <1>5, <1>7 DEF Debts, Owed
  <1>9. ASSUME NEW q \in Workers, job'[q].pc = "rmodels" PROVE ViewOwed(job[q].view)'
    <2>1. job'[q] = job[q] /\ ViewOwed(job[q].view)
      BY <1>6, <1>9 DEF Debts, Rebuilding
    <2> QED
      BY <1>1, <1>4, <1>5, <2>1 DEF ViewOwed
  <1>10. ASSUME NEW q \in Workers, job'[q].pc = "swap" PROVE Owed(job[q].next)'
    <2>1. job'[q] = job[q] /\ Owed(job[q].next)
      BY <1>6, <1>10 DEF Debts, Rebuilding
    <2> QED
      BY <1>1, <1>3, <1>4, <1>5, <2>1 DEF Owed
  <1> QED
    BY <1>8, <1>9, <1>10 DEF Debts

(* A step that writes a key and goes on to read it back.                   *)
LEMMA DebtsTaken ==
  ASSUME job \in [Workers -> Job], Debts, NEW p \in Workers, NEW j, job' = [job EXCEPT ![p] = j],
         UNCHANGED <<keyModels, catalog, recorded>>, job[p].pc \in {"idle", "write"},
         NEW n \in Ids, Exists(n)', \A k \in Ids \ {n} : keys'[k] = keys[k],
         j.pc = "reread", j.key = n, j.op = "update" \/ (~Exists(n) /\ ~Enabled(n))
  PROVE  Debts'
  <1>1. /\ \A k \in Ids \ {n} : Exists(k)' = Exists(k) /\ Enabled(k)' = Enabled(k)
        /\ keyModels' = keyModels /\ catalog' = catalog
    BY DEF Exists, Enabled
  <1>2. job'[p] = j /\ \A q \in Workers \ {p} : job'[q] = job[q]
    OBVIOUS
  <1>3. WillRebuild => WillRebuild'
    BY <1>2 DEF WillRebuild, Rebuilds
  <1>4. WillList(n)'
    BY <1>2 DEF WillList, Probes
  <1>5. j.op = "update" => WillDrop(n)'
    BY <1>2 DEF WillDrop, Disables
  <1>6. ASSUME NEW k \in Ids, k # n, WillList(k) PROVE WillList(k)'
    <2>1. ASSUME NEW q \in Workers, Probes(job[q], k) PROVE Probes(job'[q], k)
      BY <1>2, <2>1 DEF Probes
    <2> QED
      BY <1>3, <1>6, <2>1 DEF WillList
  <1>7. ASSUME NEW k \in Ids, k # n \/ ~Exists(n), WillDrop(k) PROVE WillDrop(k)'
    <2>1. ASSUME NEW q \in Workers, Disables(job[q], k) PROVE Disables(job[q], k)' /\ q # p
      BY <1>1, <1>7, <2>1 DEF Disables
    <2>2. \A q \in Workers : Disables(job[q], k)' => WillDrop(k)'
      BY DEF WillDrop
    <2> QED
      BY <1>3, <1>7, <2>1, <2>2 DEF WillDrop
  <1>8. \A q \in Workers : Rebuilding(q)' <=> q # p /\ Rebuilding(q)
    BY <1>2 DEF Rebuilding
  <1>9. ASSUME NEW k \in Ids, ~Enabled(k)', Enabled(k) \/ WillDrop(k) PROVE WillDrop(k)'
    BY <1>1, <1>5, <1>7, <1>9
  <1>10. ASSUME NEW k \in Ids, Enabled(k)', Enabled(k) => WillList(k) PROVE WillList(k)'
    BY <1>1, <1>4, <1>6, <1>10
  <1>11. (\A q \in Workers : ~Rebuilding(q)') => Owed(catalog)'
    <2>1. ASSUME \A q \in Workers : ~Rebuilding(q)' PROVE Owed(catalog)
      BY <1>8, <2>1 DEF Debts, Rebuilding
    <2> QED
      BY <1>1, <1>3, <1>9, <1>10, <2>1 DEF Owed
  <1>12. ASSUME NEW q \in Workers, job'[q].pc = "rmodels" PROVE ViewOwed(job[q].view)'
    <2>1. job'[q] = job[q] /\ ViewOwed(job[q].view)
      BY <1>8, <1>2, <1>12 DEF Debts, Rebuilding
    <2> QED
      BY <1>1, <1>9, <1>10, <2>1 DEF ViewOwed
  <1>13. ASSUME NEW q \in Workers, job'[q].pc = "swap" PROVE Owed(job[q].next)'
    <2>1. job'[q] = job[q] /\ Owed(job[q].next)
      BY <1>8, <1>2, <1>13 DEF Debts, Rebuilding
    <2> QED
      BY <1>1, <1>3, <1>9, <1>10, <2>1 DEF Owed
  <1> QED
    BY <1>11, <1>12, <1>13 DEF Debts

(* The steps of a rebuild, of which no other is under way.                 *)
LEMMA DebtsRead ==
  ASSUME job \in [Workers -> Job], NEW p \in Workers, ReadKeys(p), RebuildsApart'
  PROVE  Debts'
  <1> DEFINE j == [job[p] EXCEPT !.view = EnabledKeys, !.pc = "rmodels"]
  <1>1. job' = [job EXCEPT ![p] = j] /\ Frame
    BY DEF ReadKeys, storeVars, Frame
  <1>2. j.pc = "rmodels" /\ j.view = EnabledKeys
    BY DEF Job
  <1> HIDE DEF j
  <1>3. job'[p] = j
    BY <1>1
  <1>4. \A q \in Workers : Rebuilding(q)' <=> q = p
    BY <1>2, <1>3 DEF Rebuilding, RebuildsApart
  <1>5. \A k \in Ids : Enabled(k)' = Enabled(k)
    BY <1>1, FrameSame
  <1>6. ViewOwed(job[p].view)'
    BY <1>2, <1>3, <1>5 DEF ViewOwed, EnabledKeys
  <1> QED
    BY <1>2, <1>3, <1>4, <1>6 DEF Debts, Rebuilding

LEMMA DebtsDerived ==
  ASSUME job \in [Workers -> Job], keyModels \in [Ids -> SUBSET Models], Debts,
         NEW p \in Workers, ReadModels(p), RebuildsApart'
  PROVE  Debts'
  <1> DEFINE j == [job[p] EXCEPT !.next = Derive(job[p].view, keyModels), !.view = {},
                                 !.pc = "swap"]
  <1>1. job' = [job EXCEPT ![p] = j] /\ Frame /\ recorded' = recorded /\ job[p].pc = "rmodels"
    BY DEF ReadModels, storeVars, healthVars, Frame, At
  <1>2. j.pc = "swap" /\ j.next = Derive(job[p].view, keyModels)
    BY DEF Job
  <1> HIDE DEF j
  <1>3. job'[p] = j /\ \A q \in Workers \ {p} : job'[q] = job[q]
    BY <1>1
  <1>4. \A q \in Workers : Rebuilding(q)' <=> q = p
    BY <1>2, <1>3 DEF Rebuilding, RebuildsApart
  <1>5. /\ \A k \in Ids : Exists(k)' = Exists(k) /\ Enabled(k)' = Enabled(k)
        /\ keyModels' = keyModels
    BY <1>1, FrameSame DEF Frame
  <1>6. \A k \in Ids : WillDrop(k) => WillDrop(k)'
    BY <1>1, <1>3, <1>5 DEF WillDrop, WillRebuild, Rebuilds, Disables
  <1>7. \A k \in Ids : WillList(k) => WillList(k)'
    BY <1>1, <1>3 DEF WillList, WillRebuild, Rebuilds, Probes
  <1>8. \A m \in Models : job'[p].next[m] = {k \in job[p].view : m \in keyModels[k]}
    BY <1>2, <1>3 DEF Derive
  <1>9. ViewOwed(job[p].view)
    BY <1>1 DEF Debts
  <1>10. Owed(job[p].next)'
    BY <1>5, <1>6, <1>7, <1>8, <1>9 DEF Owed, ViewOwed
  <1> QED
    BY <1>2, <1>3, <1>4, <1>10 DEF Debts, Rebuilding

LEMMA DebtsPaid ==
  ASSUME job \in [Workers -> Job], Debts, NEW p \in Workers, Swap(p), RebuildsApart,
         NEW j, job' = [job EXCEPT ![p] = j], j.pc \notin {"rmodels", "swap"}
  PROVE  Debts'
  <1>1. /\ UNCHANGED <<keys, keyModels, recorded>> /\ catalog' = job[p].next
        /\ job[p].pc = "swap"
    BY DEF Swap, storeVars, healthVars, At
  <1>2. job'[p] = j /\ \A q \in Workers \ {p} : job'[q] = job[q]
    OBVIOUS
  <1>3. \A q \in Workers : ~Rebuilding(q)'
    BY <1>1, <1>2 DEF Rebuilding, RebuildsApart
  <1>4. \A k \in Ids : Exists(k)' = Exists(k) /\ Enabled(k)' = Enabled(k)
    BY <1>1 DEF Exists, Enabled
  <1>5. WillRebuild => WillRebuild'
    BY <1>1, <1>2 DEF WillRebuild, Rebuilds
  <1>6. \A k \in Ids : WillDrop(k) => WillDrop(k)'
    BY <1>1, <1>2, <1>4, <1>5 DEF WillDrop, Disables
  <1>7. \A k \in Ids : WillList(k) => WillList(k)'
    BY <1>1, <1>2, <1>5 DEF WillList, Probes
  <1>8. Owed(job[p].next)
    BY <1>1 DEF Debts
  <1>9. Owed(catalog)'
    BY <1>1, <1>4, <1>5, <1>6, <1>7, <1>8 DEF Owed
  <1> QED
    BY <1>3, <1>9 DEF Debts, Rebuilding

(* The row that a probe's failure is recorded in: it was ensured when the  *)
(* call was opened, and only the deletion of its key drops it.             *)
FailRows ==
    \A p \in Workers, k \in Ids :
        job[p].pc = "failing" /\ job[p].key = k => /\ mark[p].key = k /\ k <= lastId
                                                   /\ Exists(k) => H!HasRow(k)

LEMMA RowsEnsure ==
  ASSUME H!TypeOK, NEW n \in Ids, keyState' = H!Ensured(n)
  PROVE  H!HasRow(n)' /\ \A k \in Ids : H!HasRow(k) => H!HasRow(k)'
  BY DEF H!Ensured, H!HasRow, H!TypeOK, H!HealthyRow

LEMMA RowsLast ==
  ASSUME Inv, [Next]_registryVars, NEW k \in Ids, H!HasRow(k), Exists(k)'
  PROVE  H!HasRow(k)'
  <1>1. keyState \in [Ids -> H!Row]
    BY DEF Inv, H!TypeOK
  <1>2. ASSUME keyState' = keyState PROVE H!HasRow(k)'
    BY <1>2 DEF H!HasRow
  <1>3. ASSUME NEW n \in Ids, keyState' = H!Ensured(n) PROVE H!HasRow(k)'
    BY <1>3, RowsEnsure DEF Inv
  <1>4. ASSUME NEW p \in Workers, NEW n \in Ids, Delete(p, n) PROVE H!HasRow(k)'
    <2>1. keys' = [keys EXCEPT ![n] = AbsentKey] /\ keyState' = [keyState EXCEPT ![n] = H!AbsentRow]
      BY <1>4 DEF Delete, H!DeleteRow
    <2>2. k # n
      BY <2>1 DEF Exists, AbsentKey, Inv, StoreOK
    <2> QED
      BY <1>1, <2>1, <2>2 DEF H!HasRow
  <1>5. ASSUME NEW p \in Workers, Begin(p) PROVE H!HasRow(k)'
    BY <1>2, <1>4, <1>5 DEF Begin, Create, UpdateRead, Probe, List, healthVars
  <1>6. ASSUME NEW p \in Workers, EnsureState(p) \/ ReportState(p) PROVE H!HasRow(k)'
    <2>1. job[p].key \in Ids
      BY <1>6 DEF EnsureState, ReportState, At, HasKey, Works, Inv, JobsOK, GoodJob
    <2> QED
      BY <1>3, <1>6, <2>1 DEF EnsureState, ReportState, H!Ensure
  <1>7. ASSUME NEW p \in Workers, ListState(p) PROVE H!HasRow(k)'
    <2>1. healthVars' = healthVars \/ \E n \in Ids : H!Ensure(n)
      BY <1>7, ListStateMoves DEF Inv
    <2> QED
      BY <1>2, <1>3, <2>1 DEF healthVars, H!Ensure
  <1>8. ASSUME NEW p \in Workers, ListFails(p) \/ MarkProbeSuccess(p) \/ ProbeFailing(p)
        PROVE  H!HasRow(k)'
    <2>1. job[p].key \in Ids /\ (mark[p].pc # "idle" => mark[p].key \in Ids)
      BY <1>8 DEF ListFails, MarkProbeSuccess, ProbeFailing, At, HasKey, Works, Inv, JobsOK,
                  GoodJob, H!TypeOK
    <2>2. ASSUME NEW o, H!MarkBegin(p, job[p].key, o) PROVE H!HasRow(k)'
      BY <1>3, <2>1, <2>2 DEF H!MarkBegin
    <2>3. ASSUME H!MarkReset(p) PROVE H!HasRow(k)'
      BY <1>1, <2>3 DEF H!MarkReset, H!HasRow, H!HealthyRow
    <2>4. ASSUME H!MarkRecheck(p) PROVE H!HasRow(k)'
      BY <1>3, <2>1, <2>4 DEF H!MarkRecheck
    <2>5. ASSUME H!MarkRead(p) PROVE H!HasRow(k)'
      BY <1>2, <2>5 DEF H!MarkRead
    <2>6. ASSUME H!MarkWrite(p) PROVE H!HasRow(k)'
      <3>1. \A n, t : H!FailedRow(n, t).status # "absent"
        BY DEF H!FailedRow
      <3>2. keyState' = keyState
               \/ \E n, t : keyState' = [keyState EXCEPT ![mark[p].key] = H!FailedRow(n, t)]
        BY <2>6 DEF H!MarkWrite
      <3> QED
        BY <1>1, <3>1, <3>2 DEF H!HasRow
    <2> QED
      BY <1>8, <2>2, <2>3, <2>4, <2>5, <2>6 DEF ListFails, MarkProbeSuccess, ProbeFailing
  <1>9. ASSUME NEW p \in Workers,
               UpdateWrite(p) \/ Reread(p) \/ Fetch(p) \/ ListModels(p) \/ ReplaceForKey(p)
        PROVE  H!HasRow(k)'
    BY <1>2, <1>9 DEF UpdateWrite, Reread, Fetch, ListModels, ReplaceForKey, healthVars
  <1>10. ASSUME NEW p \in Workers, ReadKeys(p) \/ ReadModels(p) \/ Swap(p) \/ Report(p)
                                     \/ KeepWithModels(p) \/ ListEnabled(p) \/ ProbeNext(p)
         PROVE  H!HasRow(k)'
    BY <1>2, <1>10 DEF ReadKeys, ReadModels, Swap, Report, KeepWithModels, ListEnabled,
                       ProbeNext, healthVars
  <1>11. ASSUME (\E p \in Procs : Hangup(p)) \/ Restart \/ Tick \/ UNCHANGED registryVars
         PROVE  H!HasRow(k)'
    BY <1>2, <1>11 DEF Hangup, Restart, Tick, H!Tick, registryVars
  <1>12. \A p \in Procs : p \in Workers
    BY DEF Workers
  <1> QED
    BY <1>5, <1>6, <1>7, <1>8, <1>9, <1>10, <1>11, <1>12 DEF Next, Proceed, Step

(* Ids are never handed out twice.                                         *)
LEMMA IdsLast ==
  ASSUME Inv, [Next]_registryVars
  PROVE  lastId <= lastId' /\ \A k \in Ids : k <= lastId /\ Exists(k)' => Exists(k)
  <1>1. lastId \in Nat /\ keys \in [Ids -> Key]
    BY RegistryAssumption DEF Inv, StoreOK
  <1> DEFINE Good == lastId <= lastId' /\ \A k \in Ids : k <= lastId /\ Exists(k)' => Exists(k)
  <1>2. ASSUME UNCHANGED storeVars PROVE Good
    BY <1>1, <1>2 DEF storeVars, Exists
  <1>3. ASSUME NEW p \in Workers, NEW e, NEW c, Create(p, e, c) PROVE Good
    BY <1>1, <1>3, IdsAreIds DEF Create, FreshId, Exists
  <1>4. ASSUME NEW p \in Workers, NEW n \in Ids, Delete(p, n) PROVE Good
    BY <1>1, <1>4 DEF Delete, Exists, AbsentKey
  <1>5. ASSUME NEW p \in Workers, UpdateWrite(p) PROVE Good
    <2>1. job[p].key \in Ids /\ lastId' = lastId
      BY <1>5 DEF UpdateWrite, At, HasKey, Works, Inv, JobsOK, GoodJob
    <2>2. keys' = keys \/ (Exists(job[p].key) /\ keys' = [keys EXCEPT ![job[p].key] = job[p].row])
      BY <1>5 DEF UpdateWrite
    <2> QED
      BY <1>1, <2>1, <2>2 DEF Exists
  <1>6. ASSUME NEW p \in Workers, ReplaceForKey(p) PROVE Good
    BY <1>1, <1>6 DEF ReplaceForKey, Exists
  <1>7. ASSUME NEW p \in Workers, Begin(p) PROVE Good
    BY <1>2, <1>3, <1>4, <1>7 DEF Begin, UpdateRead, Probe, List
  <1>8. ASSUME NEW p \in Workers,
               EnsureState(p) \/ Reread(p) \/ Fetch(p) \/ ListModels(p) \/ ListFails(p)
                 \/ ProbeFailing(p) \/ MarkProbeSuccess(p)
        PROVE  Good
    BY <1>2, <1>8 DEF EnsureState, Reread, Fetch, ListModels, ListFails, ProbeFailing,
                      MarkProbeSuccess
  <1>9. ASSUME NEW p \in Workers,
               ReadKeys(p) \/ ReadModels(p) \/ Swap(p) \/ Report(p) \/ ReportState(p)
                 \/ KeepWithModels(p) \/ ListState(p) \/ ListEnabled(p) \/ ProbeNext(p)
        PROVE  Good
    BY <1>2, <1>9 DEF ReadKeys, ReadModels, Swap, Report, ReportState, KeepWithModels, ListState,
                      ListEnabled, ProbeNext
  <1>10. ASSUME (\E p \in Procs : Hangup(p)) \/ Restart \/ Tick \/ UNCHANGED registryVars
         PROVE  Good
    BY <1>2, <1>10 DEF Hangup, Restart, Tick, registryVars, storeVars
  <1>11. \A p \in Procs : p \in Workers
    BY DEF Workers
  <1> HIDE DEF Good
  <1>12. Good
    BY <1>5, <1>6, <1>7, <1>8, <1>9, <1>10, <1>11 DEF Next, Proceed, Step
  <1> QED
    BY <1>12 DEF Good

LEMMA FailRowsStep ==
  ASSUME Inv, FailRows, [Next]_registryVars
  PROVE  FailRows'
  <1> SUFFICES ASSUME NEW q \in Workers, NEW k \in Ids, job'[q].pc = "failing", job'[q].key = k
               PROVE  /\ mark'[q].key = k /\ k <= lastId'
                      /\ Exists(k)' => H!HasRow(k)'
    BY DEF FailRows
  <1>1. lastId <= lastId' /\ (k <= lastId /\ Exists(k)' => Exists(k))
    BY IdsLast
  <1>2. /\ lastId \in Nat /\ lastId' \in Nat /\ Ids \subseteq Nat
        /\ job \in [Workers -> Job] /\ mark \in [Workers -> H!Call] /\ JobsOK
    BY StoreStep, IdsAreIds, RegistryAssumption DEF Inv, StoreOK, JobsOK, H!TypeOK
  <1>3. CASE job[q].pc = "failing" /\ job'[q] = job[q] /\ mark'[q].key = mark[q].key
    <2>1. mark[q].key = k /\ k <= lastId /\ (Exists(k) => H!HasRow(k))
      <3>1. job[q].key = k /\ job[q].pc = "failing"
        BY <1>3
      <3> QED
        BY <3>1, Zenon DEF FailRows
    <2>2. Exists(k)' => H!HasRow(k)'
      BY <1>1, <2>1, RowsLast
    <2> QED
      BY <1>1, <1>2, <1>3, <2>1, <2>2
  <1>4. CASE ListFails(q)
    <2>1. job[q].pc = "list" /\ job'[q].key = job[q].key
      BY <1>2, <1>4 DEF ListFails, At, Goto, Job
    <2>2. held[k] # {}
      BY <2>1 DEF HasKey, Works, Inv, JobsOK, GoodJob
    <2>3. ~(k > lastId)
      BY <2>2 DEF Inv, StoreOK
    <2>4. keyState' = H!Ensured(k) /\ mark' = [mark EXCEPT ![q] = H!Opened(k, "failure")]
      BY <1>4, <2>1 DEF ListFails, H!MarkBegin
    <2>5. mark'[q].key = k
      BY <1>2, <2>4 DEF H!Opened
    <2>6. H!HasRow(k)'
      BY <2>4, RowsEnsure DEF Inv
    <2> QED
      BY <1>1, <1>2, <2>3, <2>5, <2>6
  <1>5. CASE MarkProbeSuccess(q)
    BY <1>2, <1>5 DEF MarkProbeSuccess, Goto, Job
  <1>6. CASE ProbeFailing(q)
    <2>1. job[q].pc = "failing" /\ HasKey(job[q])
      BY <1>6 DEF ProbeFailing, At, HasKey, Works
    <2>2. CASE AfterProbe(q, FALSE)
      BY <1>2, <2>1, <2>2, AfterProbeLeft
    <2>3. CASE UNCHANGED job /\ mark'[q] # H!NoCall
      <3>1. mark'[q].key = mark[q].key
        BY <1>2, <1>6, <2>3 DEF ProbeFailing, H!MarkRecheck, H!MarkRead, H!MarkWrite, H!HasSeen, H!Call
      <3> QED
        BY <1>3, <2>1, <2>3, <3>1
    <2> QED
      BY <1>6, <2>2, <2>3 DEF ProbeFailing
  <1>7. CASE Begin(q) \/ PlainStep(q)
    <2>1. Plain(q)
      BY <1>7, BeginPlain, StepPlain, StoreStep DEF Inv
    <2>2. job'[q].pc \in Calm
      BY <1>2, <2>1 DEF Plain, JobMoves
    <2> QED
      BY <2>2 DEF Calm
  <1>8. CASE Hangup(q)
    BY <1>2, <1>8 DEF Hangup, Finish, NoJob
  <1>9. ASSUME NEW p \in Workers \ {q}, Begin(p) \/ Step(p) \/ Hangup(p)
        PROVE  job'[q] = job[q] /\ mark'[q] = mark[q]
    BY <1>9, OthersWork
  <1>10. CASE Restart
    BY <1>10, BootJobsGood DEF Restart, Calm
  <1>11. CASE Tick \/ UNCHANGED registryVars
    BY <1>3, <1>11 DEF Tick, H!Tick, registryVars
  <1>12. \A p \in Procs : p \in Workers
    BY DEF Workers
  <1> QED
    BY <1>3, <1>4, <1>5, <1>6, <1>7, <1>8, <1>9, <1>10, <1>11, <1>12
       DEF Next, Proceed, Step, PlainStep

(* The job of p goes on to do what it owes.                                *)
Carries(p) ==
    /\ ~Rebuilds(job[p]) /\ ~Rebuilding(p) /\ ~Rebuilding(p)'
    /\ Frame
    /\ \A k \in Ids : recorded[k] > 0 => recorded'[k] > 0
    /\ \A k \in Ids : ~Enabled(k) /\ Disables(job[p], k)
                         => Rebuilds(job'[p]) \/ Disables(job'[p], k)
    /\ \A k \in Ids : Enabled(k) /\ Probes(job[p], k)
                         => Rebuilds(job'[p]) \/ Probes(job'[p], k) \/ recorded'[k] > 0

LEMMA CarriesOn ==
  ASSUME job \in [Workers -> Job], Debts, NEW p \in Workers,
         NEW j, job' = [job EXCEPT ![p] = j], Carries(p)
  PROVE  Debts'
  <1>1. job'[p] = j
    OBVIOUS
  <1> QED
    BY <1>1, DebtsKept DEF Carries, Rebuilding

(* A handler that owes nothing to begin with.                              *)
LEMMA FreeCarries ==
  ASSUME NEW p \in Workers, Frame, recorded' = recorded, ~Rebuilding(p)',
         job[p].pc \in {"idle", "write", "report", "state", "list_enabled", "next",
                        "with_models", "states"}
  PROVE  Carries(p)
  BY DEF Carries, Rebuilds, Rebuilding, Disables, Probes

LEMMA ProbeCarries ==
  ASSUME Inv, NEW p \in Workers,
         EnsureState(p) \/ Reread(p) \/ Fetch(p) \/ ListModels(p) \/ ListFails(p)
  PROVE  Carries(p)
  <1>1. job \in [Workers -> Job] /\ job[p] \in Job /\ JobsOK
    BY DEF Inv, JobsOK
  <1>2. \A k \in Ids : Enabled(k) => Exists(k)
    BY DEF Inv, StoreOK
  <1>3. Frame /\ recorded' = recorded
    BY DEF EnsureState, Reread, Fetch, ListModels, ListFails, H!Ensure, H!MarkBegin, Frame,
           storeVars, healthVars
  <1>4. CASE EnsureState(p)
    <2>1. /\ job[p].pc = "ensure" /\ job'[p].key = job[p].key /\ job'[p].op = job[p].op
          /\ job'[p].pc = IF job[p].op = "create" \/ job[p].row.enabled THEN "fetch" ELSE "rkeys"
      BY <1>1, <1>4 DEF EnsureState, At, Goto, Job
    <2> QED
      BY <1>3, <2>1 DEF Carries, Rebuilds, Rebuilding, Disables, Probes
  <1>5. CASE Reread(p)
    <2>1. job[p].pc = "reread"
      BY <1>5 DEF Reread, At
    <2>2. CASE Exists(job[p].key)
      <3>1. /\ job'[p].pc = "ensure" /\ job'[p].row = keys[job[p].key]
            /\ job'[p].key = job[p].key /\ job'[p].op = job[p].op
        BY <1>1, <1>5, <2>2 DEF Reread, Job
      <3> QED
        BY <1>3, <2>1, <3>1, FrameSame DEF Carries, Rebuilds, Rebuilding, Disables, Probes, Enabled
    <2>3. CASE ~Exists(job[p].key)
      <3>1. job'[p].pc = "idle"
        BY <1>1, <1>5, <2>3 DEF Reread, Finish, NoJob
      <3> QED
        BY <1>2, <1>3, <2>1, <2>3, <3>1 DEF Carries, Rebuilds, Rebuilding, Disables, Probes
    <2> QED
      BY <2>2, <2>3
  <1>6. CASE Fetch(p)
    <2>1. job[p].pc = "fetch" /\ HasKey(job[p])
      BY <1>6 DEF Fetch, At, HasKey, Works
    <2>2. CASE Exists(job[p].key)
      <3>1. job'[p].pc = "list" /\ job'[p].key = job[p].key
        BY <1>1, <1>6, <2>2 DEF Fetch, Job
      <3> QED
        BY <1>3, <2>1, <3>1 DEF Carries, Rebuilds, Rebuilding, Disables, Probes
    <2>3. CASE ~Exists(job[p].key)
      <3>1. job'[p].pc \in {"idle", "next", "report", "state"}
        BY <1>1, <1>6, <2>1, <2>3, AfterProbeLeft DEF Fetch
      <3> QED
        BY <1>2, <1>3, <2>1, <2>3, <3>1 DEF Carries, Rebuilds, Rebuilding, Disables, Probes
    <2> QED
      BY <2>2, <2>3
  <1>7. CASE ListModels(p) \/ ListFails(p)
    <2>1. /\ job[p].pc = "list" /\ job'[p].pc \in {"replace", "failing"}
          /\ job'[p].key = job[p].key
      BY <1>1, <1>7 DEF ListModels, ListFails, At, Goto, Job
    <2> QED
      BY <1>3, <2>1 DEF Carries, Rebuilds, Rebuilding, Disables, Probes
  <1> QED
    BY <1>4, <1>5, <1>6, <1>7

(* A probe that failed records the failure, unless its key is gone.        *)
LEMMA FailingCarries ==
  ASSUME Inv, FailRows, NEW p \in Workers, ProbeFailing(p)
  PROVE  Carries(p)
  <1> DEFINE n == job[p].key
  <1>1. /\ job \in [Workers -> Job] /\ JobsOK /\ mark \in [Workers -> H!Call]
        /\ recorded \in [Ids -> Nat]
    BY DEF Inv, JobsOK, H!TypeOK
  <1>2. /\ job[p].pc = "failing" /\ HasKey(job[p]) /\ n \in Ids /\ mark[p].key = n
        /\ Exists(n) => H!HasRow(n)
    <2>1. job[p].pc = "failing" /\ HasKey(job[p]) /\ n \in Ids
      BY DEF ProbeFailing, At, HasKey, Works, Inv, JobsOK, GoodJob
    <2> QED
      BY <2>1, Zenon DEF FailRows
  <1>3. Frame /\ \A k \in Ids : Enabled(k) => Exists(k)
    BY DEF ProbeFailing, Frame, storeVars, Inv, StoreOK
  <1>4. \A k \in Ids : recorded[k] > 0 => recorded'[k] > 0
    BY <1>1, <1>2 DEF ProbeFailing, H!MarkRecheck, H!MarkRead, H!MarkWrite
  <1>5. CASE mark'[p] = H!NoCall
    <2>1. job'[p].pc \in {"idle", "next", "report", "state"}
      BY <1>1, <1>2, <1>5, AfterProbeLeft DEF ProbeFailing
    <2>2. Exists(n) => recorded'[n] > 0
      <3>1. CASE H!MarkRecheck(p)
        BY <1>1, <1>5, <3>1 DEF H!MarkRecheck, H!NoCall, H!Call
      <3>2. CASE H!MarkRead(p)
        BY <1>1, <1>2, <1>5, <3>2 DEF H!MarkRead, H!HasSeen, H!NoCall
      <3>3. CASE H!MarkWrite(p)
        BY <1>1, <1>2, <3>3 DEF H!MarkWrite
      <3> QED
        BY <3>1, <3>2, <3>3 DEF ProbeFailing
    <2> QED
      BY <1>2, <1>3, <1>4, <2>1, <2>2 DEF Carries, Rebuilds, Rebuilding, Disables, Probes
  <1>6. CASE mark'[p] # H!NoCall
    <2>1. job' = job
      BY <1>6 DEF ProbeFailing
    <2> QED
      BY <1>2, <1>3, <1>4, <2>1 DEF Carries, Rebuilds, Rebuilding, Disables, Probes
  <1> QED
    BY <1>5, <1>6

(* The row that a PUT writes is the one it read, with its body merged in.  *)
PutsWrite == \A p \in Workers : job[p].pc = "write" => job[p].op = "update"

LEMMA WritesBegin ==
  ASSUME Inv, [Next]_registryVars, NEW q \in Workers, job'[q].pc = "write"
  PROVE  job'[q] = job[q] \/ \E k \in Ids, b \in Puts : UpdateRead(q, k, b)
  <1>1. job \in [Workers -> Job] /\ job[q] \in Job /\ JobsOK
    BY DEF Inv, JobsOK
  <1>2. CASE Begin(q)
    BY <1>1, <1>2 DEF Begin, Create, Delete, Probe, List, NoJob
  <1>3. CASE EnsureState(q) \/ UpdateWrite(q) \/ Reread(q) \/ ListModels(q) \/ ListFails(q)
    BY <1>1, <1>3 DEF EnsureState, UpdateWrite, Reread, ListModels, ListFails, Goto, Finish,
                      NoJob, Job
  <1>4. CASE ReplaceForKey(q) \/ MarkProbeSuccess(q) \/ ReadKeys(q) \/ ReadModels(q)
    BY <1>1, <1>4 DEF ReplaceForKey, MarkProbeSuccess, ReadKeys, ReadModels, Goto, Job
  <1>5. CASE Report(q) \/ ReportState(q) \/ KeepWithModels(q) \/ ListEnabled(q)
    BY <1>1, <1>5 DEF Report, ReportState, KeepWithModels, ListEnabled, Goto, Finish, NoJob, Job
  <1>6. CASE ListState(q) \/ ProbeNext(q)
    <2>1. job'[q].pc \in {"idle", "states", "list"}
      BY <1>1, <1>6 DEF ListState, ProbeNext, At, Finish, NoJob, Job
    <2> QED
      BY <2>1
  <1>7. ASSUME HasKey(job[q]), NEW ok \in BOOLEAN PROVE ~AfterProbe(q, ok)
    <2>1. AfterProbe(q, ok) => job'[q].pc \in {"idle", "next", "report", "state"}
      BY <1>1, <1>7, AfterProbeLeft
    <2> QED
      BY <2>1
  <1>8. CASE Fetch(q)
    <2>1. HasKey(job[q])
      BY <1>8 DEF Fetch, At, HasKey, Works
    <2> QED
      BY <1>1, <1>7, <1>8, <2>1 DEF Fetch, Job
  <1>9. CASE ProbeFailing(q)
    <2>1. HasKey(job[q])
      BY <1>9 DEF ProbeFailing, At, HasKey, Works
    <2> QED
      BY <1>7, <1>9, <2>1 DEF ProbeFailing
  <1>10. CASE Swap(q)
    <2>1. HasKey(job[q])
      BY <1>10 DEF Swap, At, HasKey, Works
    <2> QED
      BY <1>7, <1>10, <2>1 DEF Swap
  <1>11. CASE Hangup(q)
    BY <1>1, <1>11 DEF Hangup, Finish, NoJob
  <1>12. ASSUME NEW p \in Workers \ {q}, Begin(p) \/ Step(p) \/ Hangup(p)
         PROVE  job'[q] = job[q]
    BY <1>12, OthersWork
  <1>13. CASE Restart
    BY <1>13 DEF Restart, BootJobs, NoJob
  <1>14. CASE Tick \/ UNCHANGED registryVars
    BY <1>14 DEF Tick, registryVars
  <1>15. \A p \in Procs : p \in Workers
    BY DEF Workers
  <1>16. Step(q) => \/ EnsureState(q) \/ UpdateWrite(q) \/ Reread(q) \/ ListModels(q) \/ ListFails(q)
                    \/ ReplaceForKey(q) \/ MarkProbeSuccess(q) \/ ReadKeys(q) \/ ReadModels(q)
                    \/ Report(q) \/ ReportState(q) \/ KeepWithModels(q) \/ ListEnabled(q)
                    \/ ListState(q) \/ ProbeNext(q) \/ Fetch(q) \/ ProbeFailing(q) \/ Swap(q)
    BY DEF Step
  <1>17. \/ \E p \in Workers : Begin(p) \/ Step(p) \/ Hangup(p)
         \/ Restart \/ Tick \/ UNCHANGED registryVars
    BY <1>15 DEF Next, Proceed
  <1> QED
    BY <1>2, <1>3, <1>4, <1>5, <1>6, <1>8, <1>9, <1>10, <1>11, <1>12, <1>13, <1>14, <1>16, <1>17

LEMMA PutsWriteStep ==
  ASSUME Inv, PutsWrite, [Next]_registryVars
  PROVE  PutsWrite'
  <1> SUFFICES ASSUME NEW q \in Workers, job'[q].pc = "write" PROVE job'[q].op = "update"
    BY DEF PutsWrite
  <1>1. CASE job'[q] = job[q]
    BY <1>1 DEF PutsWrite
  <1>2. ASSUME NEW k \in Ids, NEW b \in Puts, UpdateRead(q, k, b) PROVE job'[q].op = "update"
    BY <1>2 DEF UpdateRead, NoJob, Inv, JobsOK
  <1> QED
    BY <1>1, <1>2, WritesBegin

DebtInv == Inv /\ FailRows /\ PutsWrite /\ Debts

LEMMA QuietDebts ==
  /\ QuietCatalogSound <=>
       (Quiet => \A m \in Models : \A k \in catalog[m] : k \in Current[m])
  /\ Inv /\ Debts /\ Quiet =>
       \A m \in Models, k \in Ids :
          /\ k \in catalog[m] => k \in Current[m]
          /\ k \in Current[m] => k \in catalog[m] \/ recorded[k] > 0
  <1>1. QuietCatalogSound <=>
          (Quiet => \A m \in Models : \A k \in catalog[m] : k \in Current[m])
    BY DEF QuietCatalogSound
  <1>2. ASSUME Inv, Debts, Quiet, NEW m \in Models, NEW k \in Ids
        PROVE  /\ k \in catalog[m] => k \in Current[m]
               /\ k \in Current[m] => k \in catalog[m] \/ recorded[k] > 0
    <2>1. \A p \in Workers : ~Rebuilding(p) /\ ~Rebuilds(job[p]) /\ ~Disables(job[p], k)
                               /\ ~Probes(job[p], k)
      BY <1>2 DEF Quiet, Rebuilding, Rebuilds, Disables, Probes
    <2>2. Owed(catalog)
      BY <1>2, <2>1 DEF Debts
    <2>3. k \in Current[m] <=> Enabled(k) /\ m \in keyModels[k]
      BY DEF Current, Derive, EnabledKeys
    <2> QED
      BY <2>1, <2>2, <2>3 DEF Owed, WillRebuild, WillDrop, WillList
  <1> QED
    BY <1>1, <1>2

LEMMA PlainDebts ==
  ASSUME DebtInv, NEW p \in Workers, Begin(p) \/ PlainStep(p), [Next]_registryVars,
         RebuildsApart, RebuildsApart'
  PROVE  Debts'
  <1>1. PICK j \in Job : job' = [job EXCEPT ![p] = j]
    <2>1. Plain(p)
      BY BeginPlain, StepPlain, StoreStep DEF DebtInv, Inv
    <2> QED
      BY <2>1 DEF Plain, JobMoves
  <1>2. job \in [Workers -> Job] /\ job'[p] = j /\ job[p] \in Job /\ JobsOK /\ Debts
    BY <1>1 DEF DebtInv, Inv, JobsOK
  <1>3. ASSUME Rebuilds(job'[p]) PROVE Debts'
    BY <1>1, <1>2, <1>3, RebuilderOwesNext
  <1>4. ASSUME Carries(p) PROVE Debts'
    BY <1>1, <1>2, <1>4, CarriesOn
  <1>5. ASSUME NEW e, NEW c, Create(p, e, c) PROVE Debts'
    <2>1. PICK n \in Ids : n = FreshId /\ n > lastId
      BY <1>5, RegistryAssumption DEF Create, FreshId, Ids, DebtInv, Inv, StoreOK
    <2>2. ~Exists(n) /\ ~Enabled(n)
      BY <2>1 DEF DebtInv, Inv, StoreOK
    <2>3. /\ UNCHANGED <<keyModels, catalog, recorded>> /\ job[p].pc = "idle"
          /\ keys' = [keys EXCEPT ![n] = Row(e, c)]
          /\ job' = [job EXCEPT ![p] = [NoJob EXCEPT !.op = "create", !.key = n,
                                                     !.pc = "reread"]]
      BY <1>5, <2>1 DEF Create, At, healthVars
    <2>4. job'[p].pc = "reread" /\ job'[p].key = n
      BY <1>2, <2>3 DEF NoJob
    <2>5. keys \in [Ids -> Key]
      BY DEF DebtInv, Inv, StoreOK
    <2>6. Exists(n)' /\ \A k \in Ids \ {n} : keys'[k] = keys[k]
      BY <2>1, <2>3, <2>5 DEF Exists, Row
    <2> QED
      BY <1>1, <1>2, <2>1, <2>2, <2>3, <2>4, <2>6, DebtsTaken
  <1>6. ASSUME UpdateWrite(p) PROVE Debts'
    <2>1. PICK n \in Ids : n = job[p].key
      BY <1>6 DEF UpdateWrite, At, HasKey, Works, DebtInv, Inv, JobsOK, GoodJob
    <2>2. /\ job[p].row.exists /\ job[p].pc = "write"
          /\ UNCHANGED <<keyModels, catalog, recorded>> /\ keys \in [Ids -> Key]
      BY <1>6 DEF UpdateWrite, At, HasKey, Works, DebtInv, Inv, JobsOK, GoodJob, healthVars, StoreOK
    <2>3. CASE Exists(n)
      <3>1. keys' = [keys EXCEPT ![n] = job[p].row] /\ Goto(p, "reread")
        BY <1>6, <2>1, <2>3 DEF UpdateWrite
      <3>2. /\ job'[p].pc = "reread" /\ job'[p].key = n /\ job'[p].op = job[p].op
        BY <1>2, <2>1, <3>1 DEF Goto, Job
      <3>3. job[p].op = "update"
        BY <2>2 DEF DebtInv, PutsWrite
      <3>4. Exists(n)' /\ \A k \in Ids \ {n} : keys'[k] = keys[k]
        BY <2>2, <3>1 DEF Exists
      <3> QED
        BY <1>1, <1>2, <2>2, <3>2, <3>3, <3>4, DebtsTaken
    <2>4. CASE ~Exists(n)
      <3>1. Frame /\ job'[p].pc = "idle"
        BY <1>2, <1>6, <2>1, <2>4 DEF UpdateWrite, Finish, NoJob, Frame
      <3> QED
        BY <1>4, <2>2, <3>1, FreeCarries DEF Rebuilding
    <2> QED
      BY <2>3, <2>4
  <1>7. ASSUME NEW n \in Ids, Delete(p, n) PROVE Debts'
    <2>1. job'[p].pc = "rkeys"
      BY <1>2, <1>7 DEF Delete, NoJob
    <2> QED
      BY <1>3, <2>1 DEF Rebuilds
  <1>8. ASSUME (\E k \in Ids, q \in Puts : UpdateRead(p, k, q)) \/ (\E k \in Ids : Probe(p, k))
                 \/ List(p)
        PROVE  Debts'
    <2>1. Frame /\ recorded' = recorded /\ job[p].pc = "idle"
      BY <1>8 DEF UpdateRead, Probe, List, Frame, storeVars, healthVars, At
    <2>2. job'[p].pc \in {"write", "fetch", "states", "with_models"}
      BY <1>2, <1>8 DEF UpdateRead, Probe, List, NoJob
    <2> QED
      BY <1>4, <2>1, <2>2, FreeCarries DEF Rebuilding
  <1>9. ASSUME EnsureState(p) \/ Reread(p) \/ Fetch(p) \/ ListModels(p) PROVE Debts'
    BY <1>4, <1>9, ProbeCarries DEF DebtInv
  <1>10. ASSUME ReplaceForKey(p) PROVE Debts'
    <2>1. job'[p].pc = "mark"
      BY <1>2, <1>10 DEF ReplaceForKey, Job
    <2> QED
      BY <1>3, <2>1 DEF Rebuilds
  <1>11. ASSUME ReadKeys(p) PROVE Debts'
    BY <1>2, <1>11, DebtsRead
  <1>12. ASSUME ReadModels(p) PROVE Debts'
    BY <1>2, <1>12, DebtsDerived DEF DebtInv, Inv, StoreOK
  <1>13. ASSUME Swap(p) PROVE Debts'
    <2>1. HasKey(job[p])
      BY <1>13 DEF Swap, At, HasKey, Works
    <2>2. j.pc \in {"idle", "next", "report", "state"}
      BY <1>2, <1>13, <2>1, AfterProbeLeft DEF Swap
    <2> QED
      BY <1>1, <1>2, <1>13, <2>2, DebtsPaid
  <1>14. ASSUME Report(p) \/ ReportState(p) \/ KeepWithModels(p) \/ ListEnabled(p) PROVE Debts'
    <2>1. /\ Frame /\ recorded' = recorded
          /\ job[p].pc \in {"report", "state", "with_models", "list_enabled"}
      BY <1>14 DEF Report, ReportState, KeepWithModels, ListEnabled, Frame, storeVars, healthVars,
                   At, H!Ensure
    <2>2. job'[p].pc \in {"idle", "state", "states", "next"}
      BY <1>2, <1>14 DEF Report, ReportState, KeepWithModels, ListEnabled, Goto, Finish, NoJob, Job
    <2> QED
      BY <1>4, <2>1, <2>2, FreeCarries DEF Rebuilding
  <1>15. ASSUME ListState(p) \/ ProbeNext(p) PROVE Debts'
    <2>1. Frame /\ job[p].pc \in {"states", "next"}
      BY <1>15 DEF ListState, ProbeNext, Frame, storeVars, At
    <2>2. recorded' = recorded
      BY <1>15 DEF ListState, ProbeNext, healthVars, H!Ensure
    <2>3. job'[p].pc \in {"idle", "states", "list"}
      BY <1>2, <1>15 DEF ListState, ProbeNext, At, Finish, NoJob, Job
    <2> QED
      BY <1>4, <2>1, <2>2, <2>3, FreeCarries DEF Rebuilding
  <1> QED
    BY <1>5, <1>6, <1>7, <1>8, <1>9, <1>10, <1>11, <1>12, <1>13, <1>14, <1>15 DEF Begin, PlainStep

(* Every other step of a handler, and what is no step of one.              *)
LEMMA DebtsStep ==
  ASSUME DebtInv, [Next]_registryVars, RebuildsApart, RebuildsApart', Impatient = {}
  PROVE  Debts'
  <1>1. ASSUME NEW p \in Workers, Begin(p) \/ PlainStep(p) PROVE Debts'
    BY <1>1, PlainDebts
  <1>2. job \in [Workers -> Job] /\ Debts
    BY DEF DebtInv, Inv, JobsOK
  <1>3. ASSUME NEW p \in Workers, MarkProbeSuccess(p) PROVE Debts'
    <2>1. PICK pc \in {"marking", "rkeys"} : Goto(p, pc)
      BY <1>3 DEF MarkProbeSuccess
    <2>2. job' = [job EXCEPT ![p] = [job[p] EXCEPT !.pc = pc]]
      BY <2>1 DEF Goto
    <2>3. Rebuilds([job[p] EXCEPT !.pc = pc])
      BY <1>2 DEF Rebuilds, Job
    <2> QED
      BY <1>2, <2>2, <2>3, RebuilderOwesNext
  <1>4. ASSUME NEW p \in Workers, ListFails(p) \/ ProbeFailing(p) PROVE Debts'
    <2>1. Carries(p)
      BY <1>4, ProbeCarries, FailingCarries DEF DebtInv
    <2>2. (\E pcs : JobMoves(p, pcs)) \/ UNCHANGED job
      BY <1>4, ListFailsStep, ProbeFailingStep DEF DebtInv
    <2>3. PICK j : job' = [job EXCEPT ![p] = j]
      BY <1>2, <2>2 DEF JobMoves
    <2> QED
      BY <1>2, <2>1, <2>3, CarriesOn
  <1>5. ASSUME NEW p \in Procs PROVE ~Hangup(p)
    BY DEF Hangup
  <1>6. CASE Restart
    <2>1. job' = BootJobs /\ catalog' = Current /\ UNCHANGED <<keys, keyModels>>
      BY <1>6 DEF Restart, storeVars
    <2>2. \A p \in Workers : job'[p].pc \in {"idle", "list_enabled"}
      BY <2>1 DEF BootJobs, NoJob
    <2>3. \A m \in Models, k \in Ids :
             k \in catalog'[m] <=> Enabled(k)' /\ m \in keyModels'[k]
      BY <2>1 DEF Current, Derive, EnabledKeys, Enabled
    <2>4. Owed(catalog)'
      BY <2>3 DEF Owed
    <2> QED
      BY <2>2, <2>4 DEF Debts, Rebuilding
  <1>7. CASE Tick \/ UNCHANGED registryVars
    <2>1. UNCHANGED <<keys, keyModels, catalog, job, recorded>>
      BY <1>7 DEF Tick, H!Tick, storeVars, registryVars
    <2> QED
      BY <1>2, <2>1 DEF Debts, Owed, ViewOwed, WillRebuild, WillDrop, WillList, Disables, Probes,
                       Rebuilds, Rebuilding, Exists, Enabled
  <1>8. \A p \in Procs : p \in Workers
    BY DEF Workers
  <1> QED
    BY <1>1, <1>3, <1>4, <1>5, <1>6, <1>7, <1>8 DEF Next, Proceed, Step, PlainStep

LEMMA DebtInit == Init => DebtInv
  <1> SUFFICES ASSUME Init PROVE DebtInv
    OBVIOUS
  <1>1. \A p \in Workers : job[p].pc \in {"idle", "list_enabled"}
    BY DEF Init, BootJobs, NoJob
  <1>2. \A m \in Models, k \in Ids : k \notin catalog[m] /\ ~Enabled(k)
    BY DEF Init, NoModels, NoTodo, AbsentKey, Enabled
  <1>3. Debts
    BY <1>1, <1>2 DEF Debts, Owed, Rebuilding
  <1> QED
    BY <1>1, <1>3, InvInit DEF DebtInv, FailRows, PutsWrite

LEMMA DebtStep ==
  ASSUME Impatient = {}
  PROVE  DebtInv /\ RebuildsApart /\ RebuildsApart' /\ [Next]_registryVars => DebtInv'
  BY InvStep, FailRowsStep, PutsWriteStep, DebtsStep DEF DebtInv

(* However handlers overlap and whatever probes fail, if no two rebuilds   *)
(* of the catalog overlap and no client goes away, then once all is quiet  *)
(* the catalog lists exactly the keys that exist, are enabled and have the *)
(* model, but for some of those that have had a failure recorded.          *)
THEOREM CatalogExactIfRebuildsApart ==
  ASSUME Impatient = {}
  PROVE  Spec /\ []RebuildsApart => [](QuietCatalogSound /\ QuietCatalogComplete)
  <1>1. DebtInv => QuietCatalogSound /\ QuietCatalogComplete
    <2>1. CASE ~Quiet
      BY <2>1 DEF QuietCatalogSound, QuietCatalogComplete
    <2>2. ASSUME DebtInv, Quiet PROVE QuietCatalogSound /\ QuietCatalogComplete
      <3>1. /\ \A m \in Models : catalog[m] \subseteq Ids
            /\ \A m \in Models : Current[m] \subseteq Ids
        BY <2>2 DEF DebtInv, Inv, CatalogOK, Current, Derive, EnabledKeys
      <3> QED
        BY <2>2, <3>1, QuietDebts DEF DebtInv, QuietCatalogComplete
    <2> QED
      BY <2>1, <2>2
  <1> QED
    BY <1>1, DebtInit, DebtStep, PTL DEF Spec

(* One administrator's rebuilds do not overlap.                            *)
THEOREM CatalogCompleteWhenQuiet ==
  ASSUME Impatient = {}
  PROVE  SerialSpec => []QuietCatalogComplete
  <1>1. SerialInv => RebuildsApart
    BY DEF SerialInv, JobsSerial, RebuildsApart, Rebuilding, Idle, Alone
  <1>2. SerialSpec => Spec
    BY SerialIsNext, PTL DEF SerialSpec, Spec
  <1> QED
    BY <1>1, <1>2, SerialInvariant, CatalogExactIfRebuildsApart, PTL

-----------------------------------------------------------------------------
(* Many administrators: what a PUT writes.                                 *)

(* No two PUTs to one key are between their read and their write.          *)
PutsApart ==
    \A p, q \in Workers : At(p, "write") /\ At(q, "write") /\ job[p].key = job[q].key => p = q

(* What a PUT is about to write is still the row as it is, with the body   *)
(* merged in, if there is one: ids are not handed out twice.               *)
PutsCurrent ==
    \A p \in Workers, k \in Ids :
        job[p].pc = "write" /\ job[p].key = k =>
            k <= lastId /\ (Exists(k) => job[p].row = Merge(keys[k], job[p].patch))

(* The step that changes the row of a key that was and is there.           *)
LEMMA RowWritten ==
  ASSUME Inv, [Next]_registryVars, NEW k \in Ids, Exists(k), Exists(k)', keys'[k] # keys[k]
  PROVE  \E p \in Workers : UpdateWrite(p) /\ job[p].key = k
  <1>1. keys \in [Ids -> Key] /\ lastId \in Nat /\ Ids \subseteq Nat
    BY RegistryAssumption, IdsAreIds DEF Inv, StoreOK
  <1>2. ASSUME NEW p \in Workers, NEW e, NEW c, Create(p, e, c) PROVE FALSE
    <2>1. k # FreshId
      <3>1. held[k] # {}
        BY DEF Inv, StoreOK
      <3>2. ~(k > lastId)
        BY <3>1 DEF Inv, StoreOK
      <3> QED
        BY <1>1, <3>2 DEF FreshId
    <2> QED
      BY <1>1, <1>2, <2>1 DEF Create
  <1>3. ASSUME NEW p \in Workers, NEW n \in Ids, Delete(p, n) PROVE FALSE
    BY <1>1, <1>3 DEF Delete, Exists, AbsentKey
  <1>4. ASSUME NEW p \in Workers, UpdateWrite(p) PROVE job[p].key = k
    BY <1>1, <1>4 DEF UpdateWrite
  <1>5. ASSUME NEW p \in Workers, Begin(p) PROVE FALSE
    BY <1>2, <1>3, <1>5 DEF Begin, UpdateRead, Probe, List, storeVars
  <1>6. ASSUME NEW p \in Workers,
               EnsureState(p) \/ Reread(p) \/ Fetch(p) \/ ListModels(p) \/ ListFails(p)
                 \/ ProbeFailing(p) \/ MarkProbeSuccess(p) \/ ReplaceForKey(p)
        PROVE  FALSE
    BY <1>6 DEF EnsureState, Reread, Fetch, ListModels, ListFails, ProbeFailing,
                MarkProbeSuccess, ReplaceForKey, storeVars
  <1>7. ASSUME NEW p \in Workers,
               ReadKeys(p) \/ ReadModels(p) \/ Swap(p) \/ Report(p) \/ ReportState(p)
                 \/ KeepWithModels(p) \/ ListState(p) \/ ListEnabled(p) \/ ProbeNext(p)
        PROVE  FALSE
    BY <1>7 DEF ReadKeys, ReadModels, Swap, Report, ReportState, KeepWithModels, ListState,
                ListEnabled, ProbeNext, storeVars
  <1>8. ~(\/ \E p \in Procs : Hangup(p)
          \/ Restart \/ Tick \/ UNCHANGED registryVars)
    BY DEF Hangup, Restart, Tick, registryVars, storeVars
  <1>9. \A p \in Procs : p \in Workers
    BY DEF Workers
  <1> QED
    BY <1>4, <1>5, <1>6, <1>7, <1>8, <1>9 DEF Next, Proceed, Step

LEMMA PutsCurrentStep ==
  ASSUME Inv, PutsCurrent, PutsApart, PutsApart', [Next]_registryVars
  PROVE  PutsCurrent'
  <1> SUFFICES ASSUME NEW q \in Workers, NEW k \in Ids, job'[q].pc = "write", job'[q].key = k
               PROVE  k <= lastId' /\ (Exists(k)' => job'[q].row = Merge(keys'[k], job'[q].patch))
    BY DEF PutsCurrent
  <1>1. lastId <= lastId' /\ (k <= lastId /\ Exists(k)' => Exists(k))
    BY IdsLast
  <1>2. lastId \in Nat /\ lastId' \in Nat /\ Ids \subseteq Nat /\ job \in [Workers -> Job]
    BY StoreStep, IdsAreIds, RegistryAssumption DEF Inv, StoreOK, JobsOK
  <1>3. CASE job'[q] = job[q]
    <2>1. job[q].pc = "write" /\ job[q].key = k
      BY <1>3
    <2>2. k <= lastId /\ (Exists(k) => job[q].row = Merge(keys[k], job[q].patch))
      BY <2>1, Zenon DEF PutsCurrent
    <2>3. ASSUME Exists(k)' PROVE keys'[k] = keys[k]
      <3>1. SUFFICES ASSUME keys'[k] # keys[k] PROVE FALSE
        OBVIOUS
      <3>2. PICK p \in Workers : UpdateWrite(p) /\ job[p].key = k
        BY <1>1, <2>2, <2>3, <3>1, RowWritten
      <3>3. p = q
        BY <2>1, <3>2 DEF PutsApart, UpdateWrite, At
      <3>4. job'[q].pc # "write"
        BY <1>2, <3>2, <3>3 DEF UpdateWrite, Goto, Finish, NoJob, Job
      <3> QED
        BY <3>4
    <2> QED
      BY <1>1, <1>2, <1>3, <2>2, <2>3
  <1>4. ASSUME NEW n \in Ids, NEW b \in Puts, UpdateRead(q, n, b)
        PROVE  k <= lastId' /\ (Exists(k)' => job'[q].row = Merge(keys'[k], job'[q].patch))
    <2>1. job' = [job EXCEPT ![q] = [NoJob EXCEPT !.op = "update", !.key = n, !.patch = b,
                                                  !.pc = "write", !.row = Merge(keys[n], b)]]
      BY <1>4 DEF UpdateRead
    <2>2. /\ job'[q].key = n /\ job'[q].patch = b /\ job'[q].row = Merge(keys[n], b)
          /\ Exists(n) /\ keys' = keys /\ lastId' = lastId
      BY <1>2, <1>4, <2>1 DEF UpdateRead, NoJob, storeVars
    <2>3. held[n] # {}
      BY <2>2 DEF Inv, StoreOK
    <2>4. ~(n > lastId)
      BY <2>3 DEF Inv, StoreOK
    <2> QED
      BY <1>2, <2>2, <2>4
  <1> QED
    BY <1>3, <1>4, WritesBegin

LEMMA PutsCurrentKeeps == Inv /\ PutsCurrent => KeepsOthers
  <1> SUFFICES ASSUME Inv, PutsCurrent, NEW p \in Workers, UpdateWrite(p), Exists(job[p].key)
               PROVE  LET k == job[p].key
                          q == job[p].patch
                      IN  /\ q.enabled = Same => keys'[k].enabled = keys[k].enabled
                          /\ q.cred = Same => keys'[k].cred = keys[k].cred
    BY DEF KeepsOthers
  <1>1. PICK k \in Ids : k = job[p].key
    BY DEF UpdateWrite, At, HasKey, Works, Inv, JobsOK, GoodJob
  <1>2. job[p].pc = "write" /\ keys \in [Ids -> Key]
    BY DEF UpdateWrite, At, Inv, StoreOK
  <1>3. job[p].row = Merge(keys[k], job[p].patch)
    BY <1>1, <1>2 DEF PutsCurrent
  <1>4. keys'[k] = Merge(keys[k], job[p].patch)
    BY <1>1, <1>2, <1>3 DEF UpdateWrite
  <1> QED
    BY <1>1, <1>4 DEF Merge, Row

(* What UpdatesKeepOthers asks one administrator for, all that it takes of *)
(* any number of them, who delete keys, leave and see the process restart: *)
(* that no two PUTs to one key are between their read and their write.     *)
THEOREM PutsApartKeepOthers == Spec /\ []PutsApart => UpdateKeepsOthers
  <1>1. Init => PutsCurrent
    <2>1. Init => \A p \in Workers : job[p].pc # "write"
      BY DEF Init, BootJobs, NoJob
    <2> QED
      BY <2>1 DEF PutsCurrent
  <1>2. Inv /\ PutsCurrent /\ PutsApart /\ PutsApart' /\ [Next]_registryVars => PutsCurrent'
    BY PutsCurrentStep
  <1>3. Inv /\ PutsCurrent /\ [Next]_registryVars => [KeepsOthers]_registryVars
    BY PutsCurrentKeeps
  <1> QED
    BY <1>1, <1>2, <1>3, Invariant, PTL DEF Spec, UpdateKeepsOthers, KeepsOthers

-----------------------------------------------------------------------------
(* Many administrators: the health rows.                                   *)

(* A handler that counts on key k to be there: it works on k, but for a    *)
(* deletion and for a probe that has not looked yet, or has k to visit.    *)
CountsOn(j, k) ==
    \/ /\ HasKey(j) /\ j.key = k
       /\ j.op = "delete" => j.pc \notin {"rkeys", "rmodels", "swap"}
       /\ j.op = "probe" => j.pc # "fetch"
    \/ j.todo[k].exists

(* No key is deleted while a handler counts on it.                         *)
DeletesApart ==
    \A p \in Procs, k \in Ids : Delete(p, k) => \A q \in Workers : ~CountsOn(job[q], k)

KeysThere == \A p \in Workers, k \in Ids : CountsOn(job[p], k) => Exists(k)
RowsThere == \A k \in Ids : H!HasRow(k) => Exists(k)

(* A row comes with the Ensure of a key that some handler counts on.       *)
LEMMA RowsCome ==
  ASSUME Inv, FailRows, KeysThere, [Next]_registryVars, NEW k \in Ids, H!HasRow(k)', ~H!HasRow(k)
  PROVE  Exists(k) /\ keys' = keys
  <1> DEFINE Good == Exists(k) /\ keys' = keys
  <1>1. keyState \in [Ids -> H!Row] /\ mark \in [Workers -> H!Call]
    BY DEF Inv, H!TypeOK
  <1>2. keyState' # keyState
    BY DEF H!HasRow
  <1>3. ASSUME NEW n \in Ids, keyState' = H!Ensured(n) PROVE k = n
    BY <1>1, <1>3 DEF H!Ensured, H!HasRow
  <1>4. ASSUME NEW p \in Workers,
               job[p].pc \in {"ensure", "list", "failing", "mark", "marking", "state"}
        PROVE  job[p].key \in Ids /\ Exists(job[p].key)
    BY <1>4 DEF KeysThere, CountsOn, HasKey, Works, Inv, JobsOK, GoodJob
  <1>5. ASSUME NEW p \in Workers, EnsureState(p) \/ ReportState(p) PROVE Good
    BY <1>3, <1>4, <1>5 DEF EnsureState, ReportState, At, H!Ensure, storeVars
  <1>6. ASSUME NEW p \in Workers, ListState(p) PROVE Good
    <2>1. Left(p) # {}
      BY <1>2, <1>6 DEF ListState, healthVars
    <2>2. PICK n \in Ids : n = Least(Left(p)) /\ job[p].todo[n].exists
      BY <2>1, LeastIsOne DEF Left
    <2>3. Exists(n)
      BY <2>2 DEF KeysThere, CountsOn
    <2>4. keyState' = H!Ensured(n) /\ keys' = keys
      BY <1>6, <2>1, <2>2 DEF ListState, H!Ensure, storeVars
    <2> QED
      BY <1>3, <2>3, <2>4
  <1>7. ASSUME NEW p \in Workers, ListFails(p) \/ MarkProbeSuccess(p) \/ ProbeFailing(p)
        PROVE  Good
    <2>1. /\ job[p].key \in Ids /\ Exists(job[p].key) /\ keys' = keys
          /\ ProbeFailing(p) => job[p].pc = "failing"
      BY <1>4, <1>7 DEF ListFails, MarkProbeSuccess, ProbeFailing, At, storeVars
    <2>2. ASSUME NEW o, H!MarkBegin(p, job[p].key, o) PROVE Good
      BY <1>3, <2>1, <2>2 DEF H!MarkBegin
    <2>3. ASSUME ProbeFailing(p), H!MarkRecheck(p) PROVE Good
      <3>1. mark[p].key = job[p].key
        BY <2>1, <2>3, Zenon DEF FailRows
      <3>2. keyState' = H!Ensured(job[p].key)
        BY <2>3, <3>1 DEF H!MarkRecheck
      <3> QED
        BY <1>3, <2>1, <3>2
    <2>4. ASSUME H!MarkReset(p) \/ H!MarkRead(p) \/ H!MarkWrite(p) PROVE FALSE
      <3>1. H!HasRow(k)' => H!HasRow(k)
        BY <1>1, <2>4 DEF H!MarkReset, H!MarkRead, H!MarkWrite, H!HasRow
      <3> QED
        BY <3>1
    <2> QED
      BY <1>7, <2>2, <2>3, <2>4 DEF ListFails, MarkProbeSuccess, ProbeFailing
  <1>8. ASSUME NEW p \in Workers, NEW n \in Ids, Delete(p, n) PROVE FALSE
    <2>1. H!HasRow(k)' => H!HasRow(k)
      BY <1>1, <1>8 DEF Delete, H!DeleteRow, H!HasRow, H!AbsentRow
    <2> QED
      BY <2>1
  <1>9. ASSUME NEW p \in Workers, Begin(p) PROVE Good
    BY <1>2, <1>8, <1>9 DEF Begin, Create, UpdateRead, Probe, List, healthVars
  <1>10. ASSUME NEW p \in Workers,
                UpdateWrite(p) \/ Reread(p) \/ Fetch(p) \/ ListModels(p) \/ ReplaceForKey(p)
         PROVE  Good
    BY <1>2, <1>10 DEF UpdateWrite, Reread, Fetch, ListModels, ReplaceForKey, healthVars
  <1>11. ASSUME NEW p \in Workers, ReadKeys(p) \/ ReadModels(p) \/ Swap(p) \/ Report(p)
                                     \/ KeepWithModels(p) \/ ListEnabled(p) \/ ProbeNext(p)
         PROVE  Good
    BY <1>2, <1>11 DEF ReadKeys, ReadModels, Swap, Report, KeepWithModels, ListEnabled,
                       ProbeNext, healthVars
  <1>12. ~((\E p \in Procs : Hangup(p)) \/ Restart \/ Tick \/ UNCHANGED registryVars)
    BY <1>2 DEF Hangup, Restart, Tick, H!Tick, registryVars
  <1>13. \A p \in Procs : p \in Workers
    BY DEF Workers
  <1> HIDE DEF Good
  <1>14. Good
    BY <1>5, <1>6, <1>7, <1>9, <1>10, <1>11, <1>12, <1>13 DEF Next, Proceed, Step
  <1> QED
    BY <1>14 DEF Good

(* Only the deletion of a key takes it away, and it takes its row along.   *)
LEMMA KeysGo ==
  ASSUME Inv, [Next]_registryVars, NEW k \in Ids, Exists(k), ~Exists(k)'
  PROVE  ~H!HasRow(k)' /\ \E p \in Procs : Delete(p, k)
  <1> DEFINE Good == ~H!HasRow(k)' /\ \E p \in Procs : Delete(p, k)
  <1>1. keys \in [Ids -> Key] /\ keyState \in [Ids -> H!Row] /\ keys' # keys
    BY DEF Inv, StoreOK, H!TypeOK, Exists
  <1>2. ASSUME NEW p \in Procs, NEW e, NEW c, Create(p, e, c) PROVE FALSE
    BY <1>1, <1>2 DEF Create, Exists, Row
  <1>3. ASSUME NEW p \in Procs, NEW n \in Ids, Delete(p, n) PROVE Good
    <2>1. k = n
      BY <1>1, <1>3 DEF Delete, Exists
    <2>2. ~H!HasRow(k)'
      BY <1>1, <1>3, <2>1 DEF Delete, H!DeleteRow, H!HasRow, H!AbsentRow
    <2> QED
      BY <1>3, <2>1, <2>2
  <1>4. ASSUME NEW p \in Procs, Begin(p) PROVE Good
    BY <1>1, <1>2, <1>3, <1>4 DEF Begin, UpdateRead, Probe, List, storeVars
  <1>5. ASSUME NEW p \in Workers, UpdateWrite(p) PROVE FALSE
    <2>1. job[p].row.exists
      BY <1>5 DEF UpdateWrite, At, Inv, JobsOK, GoodJob
    <2> QED
      BY <1>1, <1>5, <2>1 DEF UpdateWrite, Exists
  <1>6. ASSUME NEW p \in Workers,
               EnsureState(p) \/ Reread(p) \/ Fetch(p) \/ ListModels(p) \/ ListFails(p)
                 \/ ProbeFailing(p) \/ MarkProbeSuccess(p) \/ ReplaceForKey(p)
        PROVE  FALSE
    BY <1>1, <1>6 DEF EnsureState, Reread, Fetch, ListModels, ListFails, ProbeFailing,
                MarkProbeSuccess, ReplaceForKey, storeVars
  <1>7. ASSUME NEW p \in Workers,
               ReadKeys(p) \/ ReadModels(p) \/ Swap(p) \/ Report(p) \/ ReportState(p)
                 \/ KeepWithModels(p) \/ ListState(p) \/ ListEnabled(p) \/ ProbeNext(p)
        PROVE  FALSE
    BY <1>1, <1>7 DEF ReadKeys, ReadModels, Swap, Report, ReportState, KeepWithModels, ListState,
                ListEnabled, ProbeNext, storeVars
  <1>8. ~((\E p \in Procs : Hangup(p)) \/ Restart \/ Tick \/ UNCHANGED registryVars)
    BY <1>1 DEF Hangup, Restart, Tick, registryVars, storeVars
  <1> HIDE DEF Good
  <1>9. Good
    BY <1>4, <1>5, <1>6, <1>7, <1>8 DEF Next, Proceed, Step
  <1> QED
    BY <1>9 DEF Good

(* What a handler goes on to count on is there, if what it counted on was. *)
LEMMA CountsOnward ==
  ASSUME Inv, NEW q \in Workers, Begin(q) \/ Step(q), NEW k \in Ids,
         \A n \in Ids : CountsOn(job[q], n) => Exists(n), CountsOn(job'[q], k)
  PROVE  Exists(k)' \/ CountsOn(job[q], k)
  <1>1. /\ job \in [Workers -> Job] /\ job[q] \in Job /\ JobsOK /\ keys \in [Ids -> Key]
        /\ job[q].todo \in [Ids -> Key]
    BY JobFields DEF Inv, JobsOK, StoreOK
  <1>2. ASSUME NEW n \in Ids, UNCHANGED keys PROVE Exists(n)' = Exists(n)
    BY <1>2 DEF Exists
  <1>3. ~CountsOn(NoJob, k)
    BY NothingIn DEF CountsOn, NoJob, HasKey, Works
  <1>4. ~Finish(q)
    BY <1>1, <1>3 DEF Finish
  <1>5. NoTodo \in [Ids -> Key] /\ ~NoTodo[k].exists
    BY EmptyJob, NothingIn
  <1>6. ASSUME NEW e, NEW c, Create(q, e, c) PROVE Exists(k)'
    <2>1. job'[q].key = FreshId /\ job'[q].todo = NoTodo
      BY <1>1, <1>6 DEF Create, NoJob
    <2>2. k = FreshId /\ keys' = [keys EXCEPT ![k] = Row(e, c)]
      BY <1>5, <1>6, <2>1 DEF CountsOn, Create
    <2> QED
      BY <1>1, <2>2 DEF Exists, Row
  <1>7. ASSUME NEW n \in Ids, NEW b, UpdateRead(q, n, b) PROVE Exists(k)'
    <2>1. job'[q].key = n /\ job'[q].todo = NoTodo /\ Exists(n) /\ UNCHANGED keys
      BY <1>1, <1>7 DEF UpdateRead, NoJob, storeVars
    <2> QED
      BY <1>2, <1>5, <2>1 DEF CountsOn
  <1>8. ASSUME NEW n \in Ids, Delete(q, n) \/ Probe(q, n) PROVE FALSE
    <2>1. /\ job'[q].todo = NoTodo
          /\ \/ job'[q].op = "delete" /\ job'[q].pc = "rkeys"
             \/ job'[q].op = "probe" /\ job'[q].pc = "fetch"
      <3>1. CASE Delete(q, n)
        BY <1>1, <3>1 DEF Delete, NoJob
      <3>2. CASE Probe(q, n)
        BY <1>1, <3>2 DEF Probe, NoJob
      <3> QED
        BY <1>8, <3>1, <3>2
    <2> QED
      BY <1>5, <2>1 DEF CountsOn
  <1>9. ASSUME NEW pc, NEW S, \A n \in S : Exists(n), UNCHANGED keys,
               pc \in {"states", "with_models", "next"},
               job'[q].pc = pc, job'[q].todo = Listed(S)
        PROVE  Exists(k)'
    <2>1. job'[q].todo[k].exists
      BY <1>9 DEF CountsOn, HasKey, Works
    <2>2. k \in S
      BY <1>9, <2>1 DEF Listed, AbsentKey
    <2> QED
      BY <1>2, <1>9, <2>2
  <1>10. ASSUME List(q) PROVE Exists(k)'
    <2>1. PICK pc \in {"states", "with_models"} :
             job' = [job EXCEPT ![q] = [NoJob EXCEPT !.op = "list", !.pc = pc,
                                          !.todo = Listed({n \in Ids : Exists(n)})]]
      BY <1>10 DEF List
    <2>2. job'[q].pc = pc /\ job'[q].todo = Listed({n \in Ids : Exists(n)})
      BY <1>1, <2>1 DEF NoJob
    <2> QED
      BY <1>9, <1>10, <2>2 DEF List, storeVars
  <1>11. ASSUME ListEnabled(q) PROVE Exists(k)'
    <2>1. job'[q].pc = "next" /\ job'[q].todo = Listed(EnabledKeys)
      BY <1>1, <1>11 DEF ListEnabled, Job
    <2>2. \A n \in EnabledKeys : Exists(n)
      BY DEF EnabledKeys, Inv, StoreOK
    <2> QED
      BY <1>9, <1>11, <2>1, <2>2 DEF ListEnabled, storeVars
  (* The steps that go on with the same key and the same list.             *)
  <1>12. ASSUME job'[q].key = job[q].key, job'[q].op = job[q].op, job'[q].todo = job[q].todo,
                job[q].pc \notin {"fetch", "rkeys", "rmodels", "swap", "write", "reread"},
                HasKey(job[q])
         PROVE  CountsOn(job[q], k)
    BY <1>12 DEF CountsOn
  <1>13. ASSUME EnsureState(q) \/ ListModels(q) \/ ListFails(q) \/ ReplaceForKey(q)
                  \/ MarkProbeSuccess(q)
         PROVE  CountsOn(job[q], k)
    <2>1. job'[q].key = job[q].key /\ job'[q].op = job[q].op /\ job'[q].todo = job[q].todo
      BY <1>1, <1>13 DEF EnsureState, ListModels, ListFails, ReplaceForKey, MarkProbeSuccess,
                         Goto, Job
    <2>2. /\ job[q].pc \in {"ensure", "list", "replace", "mark", "marking"}
          /\ HasKey(job[q])
      BY <1>13 DEF EnsureState, ListModels, ListFails, ReplaceForKey, MarkProbeSuccess, At,
                   HasKey, Works
    <2> QED
      BY <1>12, <2>1, <2>2
  <1>14. ASSUME ReadKeys(q) \/ ReadModels(q) PROVE CountsOn(job[q], k)
    <2>1. job'[q].key = job[q].key /\ job'[q].op = job[q].op /\ job'[q].todo = job[q].todo
      BY <1>1, <1>14 DEF ReadKeys, ReadModels, Job
    <2>2. job'[q].pc \in {"rmodels", "swap"} /\ job[q].pc \in {"rkeys", "rmodels"}
      BY <1>1, <1>14 DEF ReadKeys, ReadModels, At, Job
    <2> QED
      BY <2>1, <2>2 DEF CountsOn, HasKey, Works
  <1>15. ASSUME UpdateWrite(q) \/ Reread(q) \/ Report(q) PROVE CountsOn(job[q], k)
    <2>1. job'[q].key = job[q].key /\ job'[q].op = job[q].op /\ job'[q].todo = job[q].todo
      BY <1>1, <1>4, <1>15 DEF UpdateWrite, Reread, Report, Goto, Job
    <2>2. job[q].pc \in {"write", "reread", "report"}
      BY <1>15 DEF UpdateWrite, Reread, Report, At
    <2> QED
      BY <2>1, <2>2 DEF CountsOn, HasKey, Works
  <1>16. ASSUME NEW ok \in BOOLEAN, AfterProbe(q, ok), HasKey(job[q]),
                job[q].pc = "fetch" => job[q].op # "probe"
         PROVE  CountsOn(job[q], k)
    <2>1. job'[q].key = job[q].key /\ job'[q].todo = job[q].todo /\ job'[q].op = job[q].op
      BY <1>1, <1>4, <1>16 DEF AfterProbe, NoJob
    <2>2. job[q].op # "delete"
      BY <1>4, <1>16 DEF AfterProbe
    <2> QED
      BY <1>16, <2>1, <2>2 DEF CountsOn
  <1>17. ASSUME Fetch(q) PROVE Exists(k)' \/ CountsOn(job[q], k)
    <2>1. job[q].pc = "fetch" /\ HasKey(job[q]) /\ UNCHANGED keys
      BY <1>17 DEF Fetch, At, HasKey, Works, storeVars
    <2>2. CASE Exists(job[q].key)
      <3>1. job'[q].key = job[q].key /\ job'[q].op = job[q].op /\ job'[q].todo = job[q].todo
        BY <1>1, <1>17, <2>2 DEF Fetch, Job
      <3> QED
        BY <1>2, <2>1, <2>2, <3>1 DEF CountsOn
    <2>3. CASE ~Exists(job[q].key)
      <3>1. AfterProbe(q, FALSE)
        BY <1>17, <2>3 DEF Fetch
      <3>2. job[q].op # "probe"
        BY <1>4, <3>1 DEF AfterProbe
      <3> QED
        BY <1>16, <2>1, <3>1, <3>2
    <2> QED
      BY <2>2, <2>3
  <1>18. ASSUME ProbeFailing(q) PROVE CountsOn(job[q], k)
    <2>1. job[q].pc = "failing" /\ HasKey(job[q]) /\ (AfterProbe(q, FALSE) \/ job' = job)
      BY <1>18 DEF ProbeFailing, At, HasKey, Works
    <2> QED
      BY <1>16, <2>1
  <1>19. ASSUME Swap(q) PROVE CountsOn(job[q], k)
    <2>1. HasKey(job[q]) /\ AfterProbe(q, TRUE) /\ job[q].pc = "swap"
      BY <1>19 DEF Swap, At, HasKey, Works
    <2> QED
      BY <1>16, <2>1
  <1>20. ASSUME KeepWithModels(q) PROVE CountsOn(job[q], k)
    <2> DEFINE todo == [n \in Ids |-> IF job[q].todo[n].enabled /\ keyModels[n] # {}
                                      THEN job[q].todo[n] ELSE AbsentKey]
    <2>1. job'[q].pc = "states" /\ job'[q].todo = todo
      BY <1>1, <1>20 DEF KeepWithModels, Job
    <2>2. todo[k].exists => job[q].todo[k].exists
      BY DEF AbsentKey
    <2> HIDE DEF todo
    <2> QED
      BY <2>1, <2>2 DEF CountsOn, HasKey, Works
  <1>21. ASSUME ListState(q) PROVE CountsOn(job[q], k)
    <2> DEFINE n == Least(Left(q))
    <2>1. job' = [job EXCEPT ![q].todo[n] = AbsentKey] /\ job[q].pc = "states"
      BY <1>4, <1>21 DEF ListState, At
    <2> HIDE DEF n
    <2>2. job'[q].pc = "states" /\ job'[q].todo = [job[q].todo EXCEPT ![n] = AbsentKey]
      BY <1>1, <2>1 DEF Job
    <2>3. job'[q].todo[k].exists
      BY <2>2 DEF CountsOn, HasKey, Works
    <2> QED
      BY <1>1, <2>2, <2>3 DEF CountsOn, AbsentKey
  <1>22. ASSUME ProbeNext(q) PROVE CountsOn(job[q], k)
    <2> DEFINE n == Least(Left(q))
    <2>1. /\ job' = [job EXCEPT ![q].key = n, ![q].row = job[q].todo[n],
                                ![q].todo[n] = AbsentKey, ![q].pc = "list"]
          /\ Left(q) # {}
      BY <1>4, <1>22 DEF ProbeNext
    <2>2. n \in Ids /\ job[q].todo[n].exists
      BY <2>1, LeastIsOne DEF Left
    <2> HIDE DEF n
    <2>3. job'[q].key = n /\ job'[q].todo = [job[q].todo EXCEPT ![n] = AbsentKey]
      BY <1>1, <2>1 DEF Job
    <2>4. job'[q].todo[k].exists => job[q].todo[k].exists
      BY <1>1, <2>3 DEF AbsentKey
    <2> QED
      BY <2>2, <2>3, <2>4 DEF CountsOn
  <1>23. ~ReportState(q)
    BY <1>4 DEF ReportState
  <1>24. Begin(q) => Exists(k)'
    BY <1>6, <1>7, <1>8, <1>10 DEF Begin
  <1>25. Step(q) => Exists(k)' \/ CountsOn(job[q], k)
    BY <1>11, <1>13, <1>14, <1>15, <1>17, <1>18, <1>19, <1>20, <1>21, <1>22, <1>23 DEF Step
  <1> QED
    BY <1>24, <1>25

LEMMA KeysThereStep ==
  ASSUME Inv, KeysThere, DeletesApart, [Next]_registryVars
  PROVE  KeysThere'
  <1> SUFFICES ASSUME NEW q \in Workers, NEW k \in Ids, CountsOn(job'[q], k) PROVE Exists(k)'
    BY DEF KeysThere
  <1>1. ASSUME CountsOn(job[q], k) PROVE Exists(k)'
    <2>1. Exists(k)
      BY <1>1 DEF KeysThere
    <2> QED
      BY <1>1, <2>1, KeysGo DEF DeletesApart
  <1>2. ASSUME Begin(q) \/ Step(q) PROVE Exists(k)'
    <2>1. Exists(k)' \/ CountsOn(job[q], k)
      BY <1>2, CountsOnward DEF KeysThere
    <2> QED
      BY <1>1, <2>1
  <1>3. ~CountsOn(NoJob, k)
    BY NothingIn DEF CountsOn, NoJob, HasKey, Works
  <1>4. ~Hangup(q)
    BY <1>3 DEF Hangup, Finish, Inv, JobsOK
  <1>5. ASSUME NEW p \in Workers \ {q}, Begin(p) \/ Step(p) \/ Hangup(p)
        PROVE  job'[q] = job[q]
    BY <1>5, OthersWork
  <1>6. ~Restart
    <2>1. ~CountsOn([NoJob EXCEPT !.op = "startup", !.pc = "list_enabled"], k)
      BY NothingIn DEF CountsOn, NoJob, HasKey, Works
    <2> QED
      BY <1>3, <2>1 DEF Restart, BootJobs
  <1>7. Tick \/ UNCHANGED registryVars => job' = job
    BY DEF Tick, registryVars
  <1>8. \/ \E p \in Workers : Begin(p) \/ Step(p) \/ Hangup(p)
        \/ Restart \/ Tick \/ UNCHANGED registryVars
    BY DEF Next, Proceed, Workers
  <1> QED
    BY <1>1, <1>2, <1>4, <1>5, <1>6, <1>7, <1>8

LEMMA RowsThereStep ==
  ASSUME Inv, FailRows, KeysThere, RowsThere, [Next]_registryVars
  PROVE  RowsThere'
  <1> SUFFICES ASSUME NEW k \in Ids, H!HasRow(k)' PROVE Exists(k)'
    BY DEF RowsThere
  <1>1. CASE H!HasRow(k)
    BY <1>1, KeysGo DEF RowsThere
  <1>2. CASE ~H!HasRow(k)
    BY <1>2, RowsCome DEF Exists
  <1> QED
    BY <1>1, <1>2

(* However handlers overlap, fail, are hung up on or cut short, the health *)
(* rows are rows of keys that exist, at every moment, if only no key is    *)
(* deleted while another handler counts on it.                             *)
THEOREM DeletesApartOrphanNothing ==
  Spec /\ [][DeletesApart]_registryVars => []NoOrphanedHealth
  <1>1. Init => FailRows /\ KeysThere /\ RowsThere
    <2> SUFFICES ASSUME Init PROVE FailRows /\ KeysThere /\ RowsThere
      OBVIOUS
    <2>1. \A p \in Workers : job[p].pc \in {"idle", "list_enabled"} /\ job[p].todo = NoTodo
      BY DEF Init, BootJobs, NoJob
    <2>2. \A p \in Workers, k \in Ids : ~CountsOn(job[p], k)
      BY <2>1, NothingIn DEF CountsOn, HasKey, Works
    <2>3. RowsThere
      BY DEF RowsThere, Init, H!Init, H!HasRow, H!AbsentRow
    <2> QED
      BY <2>1, <2>2, <2>3 DEF FailRows, KeysThere
  <1>2. Inv /\ FailRows /\ [Next]_registryVars => FailRows'
    BY FailRowsStep
  <1>3. Inv /\ KeysThere /\ [Next]_registryVars /\ [DeletesApart]_registryVars => KeysThere'
    <2>1. CASE DeletesApart
      BY <2>1, KeysThereStep
    <2>2. CASE UNCHANGED registryVars
      BY <2>2 DEF KeysThere, registryVars, Exists
    <2> QED
      BY <2>1, <2>2
  <1>4. Inv /\ FailRows /\ KeysThere /\ RowsThere /\ [Next]_registryVars => RowsThere'
    BY RowsThereStep
  <1>5. RowsThere => NoOrphanedHealth
    BY DEF RowsThere, NoOrphanedHealth
  <1> QED
    BY <1>1, <1>2, <1>3, <1>4, <1>5, Invariant, PTL DEF Spec
=============================================================================
